---- MODULE Spec2Model ----
(***************************************************************************)
(* A model of timid_github.py: the "git" command runner _git with its SSH  *)
(* retry loop, and the pull request status reporting of GithubExtension    *)
(* (_set_status, pre_step, post_step, finalize).                           *)
(*                                                                         *)
(* Byte strings (stdout, stderr) are sequences of chunks; the SSH_ERROR    *)
(* byte string is one chunk, so "SSH_ERROR in stdout" is membership of     *)
(* that chunk.  Python's None is the reserved string None, PyGithub's      *)
(* NotSet the reserved string NotSet; neither is a text the model draws.   *)
(***************************************************************************)
EXTENDS Integers, Sequences, FiniteSets, TLC

VARIABLES
    \* ---- _git: parameters of the call
    git_args,       \* the positional arguments (*args)
    ssh_retries,    \* kwargs.get('ssh_retries', 1)
    do_raise,       \* kwargs.get('do_raise', True)
    \* ---- _git: locals
    git_pc,         \* "loop" (at the while test), "after" (past the loop), "done"
    sleep_time,
    num_tries,
    child,          \* the last child process object, Unbound before the first call
    stdout,         \* the local stdout (read only when child is bound)
    \* ---- _git: what it did to the outside, in order, and how it ended
    git_trace,      \* time.sleep and ctxt.environment.call events
    git_result,     \* NoResult while running, then a return or a raise
    \* ---- GithubExtension: fields
    status_url,     \* self.status_url
    final_status,   \* self.final_status
    last_status,    \* self.last_status
    \* ---- GithubExtension: what it did to the outside and the last callback
    statuses,       \* the create_status calls that returned, in order
    last_call,      \* the last callback: its arguments, its effect, its outcome
    \* ---- a run of the test runner given callback by callback
    run_script,     \* the callbacks the runner makes, in order
    run_pc,         \* the index of the next callback of run_script
    \* ---- GithubExtension.activate
    act_args,       \* the parsed command line (args), if there is one
    act_trace,      \* the calls activate made to the outside, in order
    act_result,     \* NoResult before activate ends, then how it ended
    \* ---- a call of _select_url or of read_steps
    fn_args,        \* the call and its arguments, if there is one
    fn_ret,         \* what the call gave back, once it ran
    \* ---- CloneAction.__call__
    ghe,            \* self.ghe: repo_name, repo_url, repo_branch
    work_dir,       \* the local work_dir: ctxt.environment.cwd at the call
    target,         \* what is at repo_dir in the file system
    cwd,            \* ctxt.environment.cwd
    clone_pc,       \* where the action stands
    clone_trace,    \* what it did to the outside, in order
    clone_result    \* NoResult while it runs, then a return or a raise

git_vars == <<git_args, ssh_retries, do_raise, git_pc, sleep_time, num_tries,
              child, stdout, git_trace, git_result>>
ext_vars == <<status_url, final_status, last_status, statuses, last_call>>
run_vars == <<run_script, run_pc>>
act_vars == <<act_args, act_trace, act_result>>
fn_vars == <<fn_args, fn_ret>>
clone_vars == <<ghe, work_dir, target, cwd, clone_pc, clone_trace, clone_result>>
vars == <<git_vars, ext_vars, run_vars, act_vars, fn_vars, clone_vars>>

None == "<None>"
NotSet == "<NotSet>"

(***************************************************************************)
(* Bounds of the model.                                                    *)
(***************************************************************************)
\* the largest ssh_retries a call is made with (0 is included: see Retries)
MaxRetries == 4
\* the number of create_status calls after which no callback is made
MaxReports == 3

(***************************************************************************)
(* _git                                                                    *)
(***************************************************************************)
SSH_ERROR == "ssh_exchange_identification: Connection closed by remote host"

\* The values of ssh_retries; below 1 the loop body never runs.
Retries == 0 .. MaxRetries

\* The argument lists _git is called with ("a b" needs shell quoting).
GitArgs == { <<"status">>, <<"clone", "a b">> }

\* What a subprocess can give back: exit code, captured stdout and stderr.
ReturnCodes == {0, 1, 128}
Stdouts == { <<"out1">>, <<"out2">>, <<"out1", SSH_ERROR>> }
Stderrs == { <<>>, <<SSH_ERROR>> }
Children == [returncode : ReturnCodes, stdout : Stdouts, stderr : Stderrs]

\* A local that was never assigned.
Unbound == [unbound |-> TRUE]

NoResult == [kind |-> "none"]

\* SSH_ERROR in data
Contains(data, chunk) == \E i \in 1 .. Len(data) : data[i] = chunk

\* six.moves.shlex_quote on the arguments the model draws: the empty string
\* and a string with a character outside [A-Za-z0-9_@%+=:,./-] are quoted.
NeedsQuote == {"a b"}
shlex_quote(c) ==
    IF c = "" THEN "''"
    ELSE IF c \in NeedsQuote THEN "'" \o c \o "'"
    ELSE c

RECURSIVE Join(_, _)
Join(sep, strs) ==
    IF Len(strs) = 0 THEN ""
    ELSE IF Len(strs) = 1 THEN strs[1]
    ELSE strs[1] \o sep \o Join(sep, Tail(strs))

\* cmd = ['git']; cmd.extend(args)
Cmd(args) == <<"git">> \o args

\* ' '.join(six.moves.shlex_quote(c) for c in cmd)
Command(cmd) == Join(" ", [i \in 1 .. Len(cmd) |-> shlex_quote(cmd[i])])

GitException(cmd, returncode) ==
    [kind |-> "raise", exc |-> "GitException",
     command |-> Command(cmd), returncode |-> returncode]

UnboundLocalError == [kind |-> "raise", exc |-> "UnboundLocalError"]

SleepEvent(secs) == [ev |-> "sleep", secs |-> secs, cmd |-> <<>>, child |-> Unbound]
CallEvent(cmd, c) == [ev |-> "call", secs |-> 0, cmd |-> cmd, child |-> c]

\* A retry on any failure, marker or not.
NeedRetryAnyFailure(c) == c.returncode # 0

\* "Do we need to retry?"
NeedRetry(c) ==
    c.returncode # 0 /\ (Contains(c.stdout, SSH_ERROR) \/ Contains(c.stderr, SSH_ERROR))

\* One try too many.
LoopTestOffByOne(tries, retries) == tries <= retries

\* while num_tries < ssh_retries
LoopTest(tries, retries) == tries < retries

\* A linear backoff.
NextSleepLinear(t) == t + 1

\* sleep_time <<= 1
NextSleep(t) == t * 2

\* A sleep before every try, the first one too.
BackoffAlways(tries, t) == <<SleepEvent(t)>>

\* The time.sleep of one pass of the loop: none on the first try.
Backoff(tries, t) == IF tries > 1 THEN <<SleepEvent(t)>> ELSE <<>>

\* do_raise ignored.
RaiseTestAlways(raise, c) == c.returncode # 0

\* if do_raise and child.returncode
RaiseTest(raise, c) == raise /\ c.returncode # 0

\* The extension's variables while only _git runs.
ExtIdle ==
    /\ status_url = None
    /\ final_status = [status |-> "success", text |-> "Tests passed!", url |-> None]
    /\ last_status = <<>>
    /\ statuses = <<>>
    /\ last_call = [op |-> "none"]

\* No scripted run.
RunIdle ==
    /\ run_script = <<>>
    /\ run_pc = 1

\* activate's variables while it does not run.
ActIdle ==
    /\ act_args = <<>>
    /\ act_trace = <<>>
    /\ act_result = NoResult

\* No call of _select_url or read_steps.
FnIdle ==
    /\ fn_args = <<>>
    /\ fn_ret = <<>>

\* CloneAction's variables while it does not run.
CloneIdle ==
    /\ ghe = [repo_name |-> "repo", repo_url |-> "git://github/some/repo",
              repo_branch |-> "master"]
    /\ work_dir = "/work"
    /\ target = "absent"
    /\ cwd = "/work"
    /\ clone_pc = [at |-> "idle", mode |-> "none", next |-> 0]
    /\ clone_trace = <<>>
    /\ clone_result = NoResult

\* Everything but _git, the extension's callbacks, a scripted run and
\* activate.
RestIdle == FnIdle /\ CloneIdle
rest_vars == <<fn_vars, clone_vars>>

InitGit ==
    /\ ExtIdle
    /\ RunIdle
    /\ ActIdle
    /\ RestIdle
    /\ git_args \in GitArgs
    /\ ssh_retries \in Retries
    /\ do_raise \in BOOLEAN
    /\ git_pc = "loop"
    /\ sleep_time = 1
    /\ num_tries = 0
    /\ child = Unbound
    /\ stdout = <<>>
    /\ git_trace = <<>>
    /\ git_result = NoResult

\* One pass of the while loop: count the try, sleep if it is not the first,
\* run the command, and either continue or break.
GitTry ==
    /\ git_pc = "loop"
    /\ LoopTest(num_tries, ssh_retries)
    /\ \E c \in Children :
        /\ num_tries' = num_tries + 1
        /\ sleep_time' = IF num_tries' > 1 THEN NextSleep(sleep_time) ELSE sleep_time
        /\ git_trace' = git_trace \o Backoff(num_tries', sleep_time)
                                  \o <<CallEvent(Cmd(git_args), c)>>
        /\ child' = c
        /\ stdout' = c.stdout
        /\ git_pc' = IF NeedRetry(c) THEN "loop" ELSE "after"
    /\ UNCHANGED <<git_args, ssh_retries, do_raise, git_result>>

\* The while test fails: the retries are used up (or there were none).
GitExhausted ==
    /\ git_pc = "loop"
    /\ ~LoopTest(num_tries, ssh_retries)
    /\ git_pc' = "after"
    /\ UNCHANGED <<git_args, ssh_retries, do_raise, sleep_time, num_tries,
                   child, stdout, git_trace, git_result>>

\* The code after the loop with stdout an empty text from the start.
AfterLoopEmptyOutput(c, out, raise, args) ==
    IF c = Unbound THEN [kind |-> "return", value |-> out]
    ELSE IF RaiseTest(raise, c)
         THEN GitException(Cmd(args), c.returncode)
         ELSE [kind |-> "return", value |-> out]

\* The code after the loop.  With child unbound, "do_raise and
\* child.returncode" (do_raise true) and "return stdout" (do_raise false)
\* both read an unassigned local.
AfterLoop(c, out, raise, args) ==
    IF c = Unbound THEN UnboundLocalError
    ELSE IF RaiseTest(raise, c)
         THEN GitException(Cmd(args), c.returncode)
         ELSE [kind |-> "return", value |-> out]

GitFinish ==
    /\ git_pc = "after"
    /\ git_result' = AfterLoop(child, stdout, do_raise, git_args)
    /\ git_pc' = "done"
    /\ UNCHANGED <<git_args, ssh_retries, do_raise, sleep_time, num_tries,
                   child, stdout, git_trace>>

NextGit ==
    \/ GitTry /\ UNCHANGED <<ext_vars, run_vars, act_vars, rest_vars>>
    \/ GitExhausted /\ UNCHANGED <<ext_vars, run_vars, act_vars, rest_vars>>
    \/ GitFinish /\ UNCHANGED <<ext_vars, run_vars, act_vars, rest_vars>>

GitSpec == InitGit /\ [][NextGit]_vars

\* The calls of _git with one argument list.
InitGitLive ==
    /\ InitGit
    /\ git_args = <<"status">>

\* _git is sequential code: a step that can be taken is taken.
GitLiveSpec == InitGitLive /\ [][NextGit]_vars /\ WF_vars(NextGit)

(***************************************************************************)
(* GithubExtension: status reporting                                       *)
(***************************************************************************)
\* The states of a timid.StepResult; UNKNOWN is a state that is none of
\* timid's own.
SUCCESS == "SUCCESS"
FAILURE == "FAILURE"
ERROR == "ERROR"
SKIPPED == "SKIPPED"
UNKNOWN == "other"

\* step.name of the step the runner announces.
StepNames == {"A"}

\* The step results handed to post_step.  ok is the truth value of the
\* result object ("if not result"): true for a successful or skipped step
\* and for a failed step whose failure is ignored.
StepResults ==
    [ok : {FALSE}, state : {FAILURE, ERROR, UNKNOWN}, msg : {None, "", "oops"}]
    \cup [ok : {TRUE}, state : {SUCCESS, SKIPPED}, msg : {None}]
    \cup {[ok |-> TRUE, state |-> FAILURE, msg |-> "oops"]}

\* The values handed to finalize: None, an Exception instance, or anything
\* else; str is what '%s' formatting makes of the value.
PyNone == [kind |-> "none", str |-> "None"]
FinalResults ==
    { PyNone,
      [kind |-> "exception", str |-> "kaboom"],
      [kind |-> "other", str |-> "boom"],
      [kind |-> "other", str |-> "1"] }

\* What a callback gives back when the exception of create_status leaves it.
Raised == [kind |-> "raised", str |-> "GithubException"]

\* The --github-status-url values.
StatusUrls == {None, "http://ci"}

\* The final_status dictionaries activate() can build for a status URL: the
\* default one, two with overrides, and the one a combined override document
\* {"status": "override", "text": "t", "url": "u"} makes.
FinalStatuses(url) ==
    { [status |-> "success", text |-> "Tests passed!", url |-> url],
      [status |-> "pending", text |-> "held", url |-> "http://override"],
      [status |-> "error", text |-> "", url |-> ""],
      [status |-> "override", text |-> "t", url |-> "u"] }

\* Python truth of a string or None
Falsy(x) == x = None \/ x = ""

\* x or github.GithubObject.NotSet
OrNotSet(x) == IF Falsy(x) THEN NotSet ELSE x

\* An optional value: <<>> is None, <<x>> is x.
Nothing == <<>>
Some(x) == <<x>>

\* The arguments of a _set_status call, and of the create_status call it makes.
Report(status, text, url) == [status |-> status, text |-> text, url |-> url]
Wire(r) == [status |-> r.status, url |-> OrNotSet(r.url), text |-> OrNotSet(r.text)]

\* Where a run stands, as the runner drives it: "start" before any callback,
\* "pre" after a pre_step, "post" after the post_step of the step announced
\* last, "final" after a finalize that ends such a run; "off" once a
\* callback came out of that order or a transmission failed.
PhaseAfter(op, phase, transmitted) ==
    IF ~transmitted THEN "off"
    ELSE IF op = "pre_step" /\ phase \in {"start", "pre", "post"} THEN "pre"
    ELSE IF op = "post_step" /\ phase = "pre" THEN "post"
    ELSE IF op = "finalize" /\ phase \in {"start", "pre", "post"} THEN "final"
    ELSE "off"

NoOutcome == [ok |-> TRUE, state |-> None, msg |-> None]

\* The record of a callback: its arguments, the last status it found, the
\* _set_status call it made (if any), whether create_status raised, what it
\* returned, and the bookkeeping of the run (phase; the number of reports
\* the post_step of the step announced last has made).
Call(op, name, outcome, result, report, ok, ret, step_reports) ==
    [op |-> op, name |-> name, outcome |-> outcome, result |-> result,
     prev |-> last_status, nstatuses |-> Len(statuses),
     report |-> report, raised |-> (report # Nothing /\ ~ok),
     ret |-> IF report # Nothing /\ ~ok THEN Raised ELSE ret,
     before |-> last_call.phase,
     phase |-> PhaseAfter(op, last_call.phase, report = Nothing \/ ok),
     step_reports |-> step_reports]

\* _set_status with last_status recorded before the transmission.
set_status_speculative(r, ok) ==
    /\ statuses' = IF ok THEN Append(statuses, Wire(r)) ELSE statuses
    /\ last_status' = Some(r)

\* _set_status(status, text, url): create_status either returns (ok) or
\* raises; only when it returns is last_status assigned.
set_status(r, ok) ==
    IF ok
    THEN /\ statuses' = Append(statuses, Wire(r))
         /\ last_status' = Some(r)
    ELSE UNCHANGED <<statuses, last_status>>

\* A callback that makes the optional _set_status call `report`.
Reporting(report, ok) ==
    IF report = Nothing
    THEN ok /\ UNCHANGED <<statuses, last_status>>
    ELSE set_status(report[1], ok)

\* pre_step announcing a step only when the last status is not pending.
PreStepReportOnce(name) ==
    IF last_status # Nothing /\ last_status[1].status = "pending"
    THEN Nothing
    ELSE Some(Report("pending", name, status_url))

\* pre_step: self._set_status('pending', step.name, self.status_url)
PreStepReport(name) == Some(Report("pending", name, status_url))

pre_step(name, ok) ==
    /\ Reporting(PreStepReport(name), ok)
    /\ last_call' = Call("pre_step", name, NoOutcome, PyNone,
                         PreStepReport(name), ok, PyNone, 0)

\* post_step with the result's own message ignored.
PostStepReportDefaultMsg(name, result) ==
    IF result.ok THEN Nothing
    ELSE IF result.state = FAILURE
    THEN Some(Report("failure", "Failed: " \o name, status_url))
    ELSE Some(Report("error", "Error: " \o name, status_url))

\* post_step that reports a success too.
PostStepReportAlways(name, result) ==
    IF result.ok THEN Some(Report("success", name, status_url))
    ELSE IF result.state = FAILURE
    THEN Some(Report("failure",
                     IF Falsy(result.msg) THEN "Failed: " \o name ELSE result.msg,
                     status_url))
    ELSE Some(Report("error",
                     IF Falsy(result.msg) THEN "Error: " \o name ELSE result.msg,
                     status_url))

\* post_step telling a state that is not timid's own like an error.
PostStepReportUnknownAsError(name, result) ==
    IF result.ok THEN Nothing
    ELSE IF result.state = FAILURE
    THEN Some(Report("failure",
                     IF Falsy(result.msg) THEN "Failed: " \o name ELSE result.msg,
                     status_url))
    ELSE Some(Report("error",
                     IF Falsy(result.msg) THEN "Error: " \o name ELSE result.msg,
                     status_url))

\* post_step: the _set_status call it makes, if any.
PostStepReport(name, result) ==
    IF result.ok THEN Nothing
    ELSE IF result.state = FAILURE
    THEN Some(Report("failure",
                     IF Falsy(result.msg) THEN "Failed: " \o name ELSE result.msg,
                     status_url))
    ELSE Some(Report("error",
                     IF ~Falsy(result.msg) THEN result.msg
                     ELSE IF result.state # ERROR
                     THEN "Unknown timid state \"" \o result.state
                              \o "\" during step: " \o name
                     ELSE "Error: " \o name,
                     status_url))

post_step(name, result, ok) ==
    /\ Reporting(PostStepReport(name, result), ok)
    /\ last_call' = Call("post_step", name, result, PyNone,
                         PostStepReport(name, result), ok, PyNone,
                         Len(PostStepReport(name, result)))

\* finalize keeping a failure or error already reported.
FinalizeReportKeepFailure(result) ==
    IF result.kind = "none"
    THEN IF last_status # Nothing /\ last_status[1].status \in {"failure", "error"}
         THEN Nothing
         ELSE Some(Report(final_status.status, final_status.text, final_status.url))
    ELSE IF result.kind = "exception"
    THEN Some(Report("error", "Exception while running timid: " \o result.str,
                     status_url))
    ELSE IF last_status # Nothing /\ last_status[1].status = "pending"
    THEN Some(Report("failure", "Testing failed: " \o result.str, status_url))
    ELSE Nothing

\* finalize reporting a failure without looking at the last status.
FinalizeReportAlways(result) ==
    IF result.kind = "none"
    THEN Some(Report(final_status.status, final_status.text, final_status.url))
    ELSE IF result.kind = "exception"
    THEN Some(Report("error", "Exception while running timid: " \o result.str,
                     status_url))
    ELSE Some(Report("failure", "Testing failed: " \o result.str, status_url))

\* finalize reporting an exception under the final status's own URL.
FinalizeReportExceptionFinalUrl(result) ==
    IF result.kind = "none"
    THEN Some(Report(final_status.status, final_status.text, final_status.url))
    ELSE IF result.kind = "exception"
    THEN Some(Report("error", "Exception while running timid: " \o result.str,
                     final_status.url))
    ELSE IF last_status # Nothing /\ last_status[1].status = "pending"
    THEN Some(Report("failure", "Testing failed: " \o result.str, status_url))
    ELSE Nothing

\* finalize reporting a failure also when no status was reported yet.
FinalizeReportUnlessTerminal(result) ==
    IF result.kind = "none"
    THEN Some(Report(final_status.status, final_status.text, final_status.url))
    ELSE IF result.kind = "exception"
    THEN Some(Report("error", "Exception while running timid: " \o result.str,
                     status_url))
    ELSE IF last_status = Nothing \/ last_status[1].status = "pending"
    THEN Some(Report("failure", "Testing failed: " \o result.str, status_url))
    ELSE Nothing

\* finalize never reporting a failure of its own.
FinalizeReportNoFailure(result) ==
    IF result.kind = "none"
    THEN Some(Report(final_status.status, final_status.text, final_status.url))
    ELSE IF result.kind = "exception"
    THEN Some(Report("error", "Exception while running timid: " \o result.str,
                     status_url))
    ELSE Nothing

\* finalize: the _set_status call it makes, if any.
FinalizeReport(result) ==
    IF result.kind = "none"
    THEN Some(Report(final_status.status, final_status.text, final_status.url))
    ELSE IF result.kind = "exception"
    THEN Some(Report("error", "Exception while running timid: " \o result.str,
                     status_url))
    ELSE IF last_status # Nothing /\ last_status[1].status = "pending"
    THEN Some(Report("failure", "Testing failed: " \o result.str, status_url))
    ELSE Nothing

\* finalize returning None whatever it was given.
finalize_returns_none(result, ok) ==
    /\ Reporting(FinalizeReport(result), ok)
    /\ last_call' = Call("finalize", None, NoOutcome, result,
                         FinalizeReport(result), ok, PyNone,
                         last_call.step_reports)

\* finalize catching the exception of create_status and returning result.
finalize_best_effort(result, ok) ==
    /\ Reporting(FinalizeReport(result), ok)
    /\ last_call' = [Call("finalize", None, NoOutcome, result,
                          FinalizeReport(result), ok, result,
                          last_call.step_reports) EXCEPT !.ret = result]

\* finalize: report according to result, then "return result"; an exception
\* of create_status leaves finalize before the return.
finalize(result, ok) ==
    /\ Reporting(FinalizeReport(result), ok)
    /\ last_call' = Call("finalize", None, NoOutcome, result,
                         FinalizeReport(result), ok, result,
                         last_call.step_reports)

\* _git's variables while only the extension runs.
GitIdle ==
    /\ git_args = <<"status">>
    /\ ssh_retries = 1
    /\ do_raise = TRUE
    /\ git_pc = "idle"
    /\ sleep_time = 1
    /\ num_tries = 0
    /\ child = Unbound
    /\ stdout = <<>>
    /\ git_trace = <<>>
    /\ git_result = NoResult

\* GithubExtension.__init__, with the status_url and final_status activate()
\* hands it.
InitExt ==
    /\ GitIdle
    /\ RunIdle
    /\ ActIdle
    /\ RestIdle
    /\ status_url \in StatusUrls
    /\ final_status \in FinalStatuses(status_url)
    /\ last_status = Nothing
    /\ statuses = <<>>
    /\ last_call = [op |-> "none", name |-> None, outcome |-> NoOutcome,
                    result |-> PyNone, prev |-> Nothing, nstatuses |-> 0,
                    report |-> Nothing, raised |-> FALSE, ret |-> PyNone,
                    before |-> "start", phase |-> "start", step_reports |-> 0]

\* The runner calls back; the model stops calling after MaxReports statuses.
PreStep ==
    /\ Len(statuses) < MaxReports
    /\ \E name \in StepNames, ok \in BOOLEAN : pre_step(name, ok)
    /\ UNCHANGED <<status_url, final_status>>

PostStep ==
    /\ Len(statuses) < MaxReports
    /\ \E name \in StepNames, result \in StepResults, ok \in BOOLEAN :
           post_step(name, result, ok)
    /\ UNCHANGED <<status_url, final_status>>

Finalize ==
    /\ Len(statuses) < MaxReports
    /\ \E result \in FinalResults, ok \in BOOLEAN : finalize(result, ok)
    /\ UNCHANGED <<status_url, final_status>>

NextExt ==
    \/ PreStep /\ UNCHANGED <<git_vars, run_vars, act_vars, rest_vars>>
    \/ PostStep /\ UNCHANGED <<git_vars, run_vars, act_vars, rest_vars>>
    \/ Finalize /\ UNCHANGED <<git_vars, run_vars, act_vars, rest_vars>>

ExtSpec == InitExt /\ [][NextExt]_vars

(***************************************************************************)
(* A run given callback by callback: the runner announces each step with   *)
(* pre_step, ends it with post_step, and ends the run with finalize; a     *)
(* run aborted inside a step goes from pre_step straight to finalize.      *)
(***************************************************************************)
RunCallback(op, name, outcome, result) ==
    [op |-> op, name |-> name, outcome |-> outcome, result |-> result]

Pre(name) == RunCallback("pre_step", name, NoOutcome, PyNone)
Post(name, outcome) == RunCallback("post_step", name, outcome, PyNone)
Final(result) == RunCallback("finalize", None, NoOutcome, result)

StepSuccess == [ok |-> TRUE, state |-> SUCCESS, msg |-> None]
StepFailure(msg) == [ok |-> FALSE, state |-> FAILURE, msg |-> msg]

\* Step A succeeds, step B fails with the message "oops", and the run ends
\* with a result that is a string.
FailingRun(result) ==
    << Pre("A"), Post("A", StepSuccess),
       Pre("B"), Post("B", StepFailure("oops")),
       Final(result) >>

\* The run is aborted from outside while step A runs.
AbortedRun == << Pre("A"), Final([kind |-> "other", str |-> "boom"]) >>

Runs ==
    { FailingRun(r) : r \in { f \in FinalResults : f.kind = "other" } }
    \cup { AbortedRun }

InitRun ==
    /\ GitIdle
    /\ ActIdle
    /\ RestIdle
    /\ run_script \in Runs
    /\ run_pc = 1
    /\ status_url \in StatusUrls
    /\ final_status \in FinalStatuses(status_url)
    /\ last_status = Nothing
    /\ statuses = <<>>
    /\ last_call = [op |-> "none", name |-> None, outcome |-> NoOutcome,
                    result |-> PyNone, prev |-> Nothing, nstatuses |-> 0,
                    report |-> Nothing, raised |-> FALSE, ret |-> PyNone,
                    before |-> "start", phase |-> "start", step_reports |-> 0]

\* The next callback of the run, if it is an `op`.
NextCallback(op) ==
    /\ run_pc <= Len(run_script)
    /\ run_script[run_pc].op = op
    /\ run_pc' = run_pc + 1
    /\ UNCHANGED <<run_script, status_url, final_status>>

RunPreStep ==
    /\ NextCallback("pre_step")
    /\ \E ok \in BOOLEAN : pre_step(run_script[run_pc].name, ok)

RunPostStep ==
    /\ NextCallback("post_step")
    /\ \E ok \in BOOLEAN :
           post_step(run_script[run_pc].name, run_script[run_pc].outcome, ok)

RunFinalize ==
    /\ NextCallback("finalize")
    /\ \E ok \in BOOLEAN : finalize(run_script[run_pc].result, ok)

NextRun ==
    \/ RunPreStep /\ UNCHANGED <<git_vars, act_vars, rest_vars>>
    \/ RunPostStep /\ UNCHANGED <<git_vars, act_vars, rest_vars>>
    \/ RunFinalize /\ UNCHANGED <<git_vars, act_vars, rest_vars>>

RunSpec == InitRun /\ [][NextRun]_vars

(***************************************************************************)
(* GithubExtension.activate                                                *)
(***************************************************************************)
\* A string activate takes apart (the --github-pull value) is a sequence of
\* pieces: "#", "/" and each digit are pieces of their own, any other piece
\* is a run of other characters.  Text is the string itself.
Text(pieces) == Join("", pieces)

Digits == {"0", "1", "2", "5"}
DigitValue(d) ==
    CASE d = "0" -> 0 [] d = "1" -> 1 [] d = "2" -> 2 [] d = "5" -> 5

\* str.isdigit: all characters are digits and there is at least one.
isdigit(s) == s # <<>> /\ \A i \in 1 .. Len(s) : s[i] \in Digits

\* int() of a string of digits
RECURSIVE int(_)
int(s) ==
    IF s = <<>> THEN 0
    ELSE int(SubSeq(s, 1, Len(s) - 1)) * 10 + DigitValue(s[Len(s)])

\* '%d' % n
DecimalDigit(d) ==
    CASE d = 0 -> "0" [] d = 1 -> "1" [] d = 2 -> "2" [] d = 3 -> "3"
      [] d = 4 -> "4" [] d = 5 -> "5" [] d = 6 -> "6" [] d = 7 -> "7"
      [] d = 8 -> "8" [] d = 9 -> "9"
RECURSIVE Decimal(_)
Decimal(n) ==
    IF n < 10 THEN DecimalDigit(n)
    ELSE Decimal(n \div 10) \o DecimalDigit(n % 10)

\* str.partition(sep): the part before the first sep, sep, the part after;
\* without a sep the whole string and two empty strings.
partition(s, sep) ==
    IF \E i \in 1 .. Len(s) : s[i] = sep
    THEN LET i == CHOOSE k \in 1 .. Len(s) :
                      s[k] = sep /\ \A j \in 1 .. k - 1 : s[j] # sep
         IN  <<SubSeq(s, 1, i - 1), <<sep>>, SubSeq(s, i + 1, Len(s))>>
    ELSE <<s, <<>>, <<>>>>

\* The JSON texts the model draws, each one piece, with what json.loads
\* makes of them.
PullJson == "{\"number\": 7, \"base\": {}, \"head\": {}}"
EmptyJson == "{}"
OverrideJson == "{\"status\": \"override\", \"text\": \"t\", \"url\": \"u\"}"
TextJson == "{\"text\": \"t\", \"other\": 1}"
JsonObject(obj) == [type |-> "object", obj |-> obj, value |-> 0]
JsonNumber(n) == [type |-> "number", obj |-> <<>>, value |-> n]
ValueError == [type |-> "ValueError", obj |-> <<>>, value |-> 0]
JsonDocuments ==
    (PullJson :> JsonObject([number |-> "7"]))
    @@ (EmptyJson :> JsonObject(<<>>))
    @@ (OverrideJson :> JsonObject([status |-> "override", text |-> "t", url |-> "u"]))
    @@ (TextJson :> JsonObject([text |-> "t", other |-> "1"]))

\* json.loads taking nothing but the documents above.
json_loads_documents(s) ==
    IF Len(s) = 1 /\ s[1] \in DOMAIN JsonDocuments THEN JsonDocuments[s[1]]
    ELSE ValueError

\* json.loads: one of the documents above, or a number (digits without a
\* leading zero); anything else raises ValueError.
json_loads(s) ==
    IF Len(s) = 1 /\ s[1] \in DOMAIN JsonDocuments THEN JsonDocuments[s[1]]
    ELSE IF isdigit(s) /\ (Len(s) = 1 \/ s[1] # "0") THEN JsonNumber(int(s))
    ELSE ValueError

\* The --github-pull values: not given (Nothing), or a string.
Pulls ==
    { Nothing } \cup
    { Some(s) : s \in { <<>>,
                        <<"repo", "#", "5">>,
                        <<"owner", "/", "repo", "#", "1", "2">>,
                        <<"repo", "#", "0", "5">>,
                        <<"repo", "#">>,
                        <<"repo", "#", "x">>,
                        <<"repo">>,
                        <<"5">>,
                        <<PullJson>>,
                        <<EmptyJson>> } }

\* The command line: the values argparse hands to activate.
Args ==
    [ github_api : {"https://api"},
      github_user : {"example"},
      github_pass : {None, "", "pw"},
      github_keyring_set : BOOLEAN,
      github_pull : Pulls,
      github_repo : {"git", "ssh://host/r.git"},
      github_change_repo : {None, "https"},
      github_status_url : StatusUrls,
      github_override : {None, "not json", OverrideJson, TextJson, "5"},
      github_override_status : {None, "failure"},
      github_override_text : {None, "", "t2"},
      github_override_url : {None, "u2"} ]

\* What is outside activate: the password the keyring holds (None when it
\* holds none), the password typed at the prompt, and what goes wrong, if
\* anything: the repository or the pull request is not found, the raw data
\* does not make a usable pull request, the pull request has no commits.
Keyrings == {None, "from_keyring"}
Typed == {"from_keyboard"}
Failures == {"nothing", "no repo", "no pull", "unusable data", "no commits"}
Envs == [keyring : Keyrings, typed : Typed, fails : Failures]

\* A github repository and a pull request, as PyGithub presents them.
Repo(full_name, name) ==
    [ full_name |-> full_name, name |-> name,
      ssh_url |-> "ssh://git@github/" \o full_name,
      git_url |-> "git://github/" \o full_name,
      clone_url |-> "https://github/" \o full_name ]
Pull(owner, name, number) ==
    [ number |-> number,
      base |-> [ref |-> "master", repo |-> Repo(owner \o "/" \o name, name)],
      head |-> [ref |-> "feature", repo |-> Repo("fork/" \o name, name)] ]

\* URL_ATTR with "https" naming the git URL.
URL_ATTR_HttpsAsGit == [ssh |-> "ssh_url", git |-> "git_url", https |-> "git_url"]

\* URL_ATTR and _select_url(repo_url, repo_obj)
URL_ATTR == [ssh |-> "ssh_url", git |-> "git_url", https |-> "clone_url"]
select_url(repo_url, repo_obj) ==
    IF repo_url \in DOMAIN URL_ATTR
    THEN repo_obj[URL_ATTR[repo_url]]
    ELSE repo_url

\* A call activate makes to the outside, with what it gave back: None when
\* that is of no interest, Raises when the call raised.
Raises == "<raises>"
Ev(fn, args, ret) == [fn |-> fn, args |-> args, ret |-> ret]

\* activate's outcomes.
Inactive == [kind |-> "inactive"]
Raise(exc) == [kind |-> "raise", exc |-> exc]

\* Only a missing --github-pull taken as no pull request.
NoPullMissingOnly(args) == args.github_pull = Nothing

\* "if not args.github_pull"
NoPull(args) == args.github_pull = Nothing \/ args.github_pull[1] = <<>>

\* service = 'timid-github!%s' % args.github_api
Service(args) == "timid-github!" \o args.github_api

\* The password: --github-pass, else the keyring unless it is to be set,
\* else the prompt.
\* The keyring read also when it is to be set.
ReadsKeyringAlways(args) == args.github_pass = None

\* "if passwd is None and not args.github_keyring_set"
ReadsKeyring(args) == args.github_pass = None /\ ~args.github_keyring_set

AfterKeyring(args, env) ==
    IF ReadsKeyring(args) THEN env.keyring ELSE args.github_pass
Prompts(args, env) == AfterKeyring(args, env) = None
Passwd(args, env) ==
    IF Prompts(args, env) THEN env.typed ELSE AfterKeyring(args, env)

\* The calls that settle the password and make the github handle.
Credentials(args, env) ==
    (IF ReadsKeyring(args)
     THEN <<Ev("keyring.get_password", <<Service(args), args.github_user>>,
             env.keyring)>>
     ELSE <<>>)
    \o (IF Prompts(args, env)
        THEN <<Ev("getpass.getpass",
                  <<"[" \o args.github_api \o "] Password for \""
                        \o args.github_user \o "\"> ">>,
                  env.typed)>>
        ELSE <<>>)
    \o (IF args.github_keyring_set
        THEN <<Ev("keyring.set_password",
                  <<Service(args), args.github_user, Passwd(args, env)>>,
                  None)>>
        ELSE <<>>)
    \o <<Ev("github.Github",
            <<args.github_user, Passwd(args, env), args.github_api>>, None)>>

\* The repository to look up with every name put behind the user's.
RepoPiecesUnderUser(args, repo) == <<args.github_user, "/">> \o repo

\* The repository to look up, as pieces: "repo" gets the user in front.
RepoPieces(args, repo) ==
    IF \E i \in 1 .. Len(repo) : repo[i] = "/"
    THEN repo
    ELSE <<args.github_user, "/">> \o repo

\* The pull request github has at a repository: its owner is what stands
\* before the first "/", its name what stands after.
PullAt(repo, number) ==
    Pull(Text(partition(repo, "/")[1]), Text(partition(repo, "/")[3]), number)

\* The pull request designation interpreted: the calls made and either a
\* pull request or the way activate ends.  Raw data that is no JSON object
\* never makes a usable pull request; the exception of
\* create_from_raw_data, or of reading the pull request it made, leaves
\* activate.
Resolve(args, env) ==
    LET text == args.github_pull[1]
        pull_raw == json_loads(text)
        parts == partition(text, "#")
        number == parts[3]
        repo == RepoPieces(args, parts[1])
    IN  IF pull_raw.type = "ValueError"
        THEN IF number = <<>> \/ ~isdigit(number)
             THEN [calls |-> <<>>, pull |-> Nothing, result |-> Inactive]
             ELSE IF env.fails = "no repo"
             THEN [calls |-> <<Ev("gh.get_repo", <<Text(repo)>>, Raises)>>,
                   pull |-> Nothing, result |-> Inactive]
             ELSE IF env.fails = "no pull"
             THEN [calls |-> <<Ev("gh.get_repo", <<Text(repo)>>, None),
                               Ev("repo.get_pull", <<int(number)>>, Raises)>>,
                   pull |-> Nothing, result |-> Inactive]
             ELSE [calls |-> <<Ev("gh.get_repo", <<Text(repo)>>, None),
                               Ev("repo.get_pull", <<int(number)>>, None)>>,
                   pull |-> Some(PullAt(repo, int(number))),
                   result |-> NoResult]
        ELSE IF pull_raw.type = "object" /\ env.fails # "unusable data"
             THEN [calls |-> <<Ev("gh.create_from_raw_data", <<pull_raw>>, None)>>,
                   pull |-> Some(Pull("some", "repo", 7)),
                   result |-> NoResult]
             ELSE [calls |-> <<Ev("gh.create_from_raw_data", <<pull_raw>>, Raises)>>,
                   pull |-> Nothing, result |-> Raise("Exception")]

\* final_status as activate first sets it up.
DefaultStatus(args) ==
    [status |-> "success", text |-> "Tests passed!",
     url |-> args.github_status_url]

\* --github-override: the keys of final_status the document has are taken
\* from it; a text that is no JSON is passed over; a document that is no
\* dictionary fails at "key in override_raw".
OverrideRaw(args) == json_loads(<<args.github_override>>)
OverrideFails(args) ==
    /\ ~Falsy(args.github_override)
    /\ OverrideRaw(args).type = "number"

\* --github-override with the keys the document lacks set to None.
OverriddenAllKeys(args, fs) ==
    IF Falsy(args.github_override) \/ OverrideRaw(args).type # "object"
    THEN fs
    ELSE [key \in DOMAIN fs |->
             IF key \in DOMAIN OverrideRaw(args).obj
             THEN OverrideRaw(args).obj[key]
             ELSE None]

Overridden(args, fs) ==
    IF Falsy(args.github_override) \/ OverrideRaw(args).type # "object"
    THEN fs
    ELSE [key \in DOMAIN fs |->
             IF key \in DOMAIN OverrideRaw(args).obj
             THEN OverrideRaw(args).obj[key]
             ELSE fs[key]]

\* --github-override-status, -text and -url: "if args.github_override_text:"
Discrete(args, fs) ==
    [ status |-> IF ~Falsy(args.github_override_status)
                 THEN args.github_override_status ELSE fs.status,
      text |-> IF ~Falsy(args.github_override_text)
               THEN args.github_override_text ELSE fs.text,
      url |-> IF ~Falsy(args.github_override_url)
              THEN args.github_override_url ELSE fs.url ]

FinalStatus(args) == Discrete(args, Overridden(args, DefaultStatus(args)))

\* The instance activate returns for a pull request.
Instance(args, env, pull) ==
    [ kind |-> "instance",
      gh |-> <<args.github_user, Passwd(args, env), args.github_api>>,
      pull |-> pull,
      last_commit |-> "last commit",
      status_url |-> args.github_status_url,
      final_status |-> FinalStatus(args),
      repo_name |-> pull.base.repo.name,
      repo_url |-> select_url(args.github_repo, pull.base.repo),
      repo_branch |-> pull.base.ref,
      change_url |-> select_url(IF Falsy(args.github_change_repo)
                                THEN args.github_repo
                                ELSE args.github_change_repo,
                                pull.head.repo),
      change_branch |-> pull.head.ref ]

\* ctxt.variables.update({...}), for the instance about to be made
Variables(args, inst) ==
    [ github_api |-> args.github_api,
      github_api_username |-> args.github_user,
      github_api_password |-> inst.gh[2],
      github_repo_name |-> inst.repo_name,
      github_pull |-> inst.pull.base.repo.full_name \o "#"
                          \o Decimal(inst.pull.number),
      github_base_repo |-> inst.repo_url,
      github_base_branch |-> inst.repo_branch,
      github_change_repo |-> inst.change_url,
      github_change_branch |-> inst.change_branch,
      github_success_status |-> inst.final_status.status,
      github_success_text |-> inst.final_status.text,
      github_success_url |-> inst.final_status.url,
      github_status_url |-> args.github_status_url ]

\* The two calls of _select_url, for the base and for the change
\* repository.
SelectUrls(args, inst) ==
    << Ev("_select_url", <<args.github_repo, inst.pull.base.repo>>, inst.repo_url),
       Ev("_select_url",
          <<IF Falsy(args.github_change_repo)
            THEN args.github_repo ELSE args.github_change_repo,
            inst.pull.head.repo>>,
          inst.change_url) >>

\* What activate does with the pull request it resolved.
Setup(args, env, pull) ==
    LET inst == Instance(args, env, pull)
    IN  IF env.fails = "no commits"
        THEN [calls |-> SelectUrls(args, inst)
                        \o <<Ev("pull.get_commits", <<>>, "no commits")>>,
              result |-> Raise("IndexError")]
        ELSE IF OverrideFails(args)
        THEN [calls |-> SelectUrls(args, inst)
                        \o <<Ev("pull.get_commits", <<>>, None)>>,
              result |-> Raise("TypeError")]
        ELSE [calls |-> SelectUrls(args, inst) \o
                        <<Ev("pull.get_commits", <<>>, None),
                          Ev("ctxt.variables.declare_sensitive",
                             <<"github_api_password">>, None),
                          Ev("ctxt.variables.update",
                             <<Variables(args, inst)>>, None)>>,
              result |-> inst]

\* activate(ctxt, args): the calls it makes, in order, and how it ends.
activate(args, env) ==
    IF NoPull(args)
    THEN [calls |-> <<>>, result |-> Inactive]
    ELSE LET found == Resolve(args, env)
             setup == Setup(args, env, found.pull[1])
         IN  IF found.pull = Nothing
             THEN [calls |-> Credentials(args, env) \o found.calls,
                   result |-> found.result]
             ELSE [calls |-> Credentials(args, env) \o found.calls
                             \o setup.calls,
                   result |-> setup.result]

\* The command line is parsed; no instance exists.
InitAct ==
    /\ GitIdle
    /\ RunIdle
    /\ ExtIdle
    /\ RestIdle
    /\ act_args \in { Some(a) : a \in Args }
    /\ act_trace = <<>>
    /\ act_result = NoResult

\* The one call of activate; the instance it returns has the fields
\* __init__ gives it.
Activate ==
    /\ act_result = NoResult
    /\ \E env \in Envs :
        LET done == activate(act_args[1], env)
        IN  /\ act_trace' = done.calls
            /\ act_result' = done.result
            /\ IF done.result.kind = "instance"
               THEN /\ status_url' = done.result.status_url
                    /\ final_status' = done.result.final_status
                    /\ last_status' = Nothing
               ELSE UNCHANGED <<status_url, final_status, last_status>>
    /\ UNCHANGED <<act_args, statuses, last_call>>

NextAct ==
    \/ Activate /\ UNCHANGED <<git_vars, run_vars, rest_vars>>

ActSpec == InitAct /\ [][NextAct]_vars

(***************************************************************************)
(* _select_url and GithubExtension.read_steps                              *)
(***************************************************************************)
\* A step list has at most MaxSteps steps before read_steps.
MaxSteps == 4

\* The repo_url values handed to _select_url: the three tokens, strings
\* close to them, and URLs.
RepoUrls ==
    { "ssh", "git", "https", "SSH", "http", "gits", "", "ssh_url",
      "git://host/r.git", "https://host/r.git" }
RepoObjects ==
    { Repo(full_name, "repo") :
          full_name \in {"some/repo", "fork/repo", "owner/repo", "example/repo",
                         "org/repo", "user/repo"} }
SelectCalls ==
    [op : {"_select_url"}, repo_url : RepoUrls, repo_obj : RepoObjects]

\* The file inspect.getsourcefile gives for the extension's class.
fname == "timid_github.py"

\* timid.Step(addr, action, name=..., description=...)
Step(addr, action, name, description) ==
    [addr |-> addr, action |-> action, name |-> name,
     description |-> description]
StepAddress(file, idx) == <<file, idx>>

\* The steps read from a test description.
UserSteps ==
    { Step(StepAddress("tests.yaml", i), "run", name, "") :
          i \in {0}, name \in {"lint", "unit", "docs"} }

RECURSIVE ListsUpTo(_, _)
ListsUpTo(S, n) ==
    IF n = 0 THEN { <<>> }
    ELSE ListsUpTo(S, n - 1)
         \cup { Append(l, x) : l \in { m \in ListsUpTo(S, n - 1) : Len(m) = n - 1 },
                               x \in S }
ReadStepsCalls == [op : {"read_steps"}, steps : ListsUpTo(UserSteps, MaxSteps)]

\* The two steps read_steps makes.
CloneStep ==
    Step(StepAddress(fname, 0), "CloneAction", "Cloning repository",
         "Clone the Github repository")
MergeStep ==
    Step(StepAddress(fname, 1), "MergeAction", "Merging pull request",
         "Merge the Github pull request")

\* read_steps putting its steps behind the steps read.
read_steps_appending(steps) == steps \o <<CloneStep, MergeStep>>

\* read_steps: steps[0:0] = [clone step, merge step]; the list as it is
\* after the call.
read_steps(steps) == <<CloneStep, MergeStep>> \o steps

InitFn ==
    /\ GitIdle
    /\ ExtIdle
    /\ RunIdle
    /\ ActIdle
    /\ CloneIdle
    /\ fn_args \in { Some(c) : c \in SelectCalls \cup ReadStepsCalls }
    /\ fn_ret = Nothing

SelectUrl ==
    /\ fn_ret = Nothing
    /\ fn_args[1].op = "_select_url"
    /\ fn_ret' = Some(select_url(fn_args[1].repo_url, fn_args[1].repo_obj))
    /\ UNCHANGED fn_args

ReadSteps ==
    /\ fn_ret = Nothing
    /\ fn_args[1].op = "read_steps"
    /\ fn_ret' = Some(read_steps(fn_args[1].steps))
    /\ UNCHANGED fn_args

NextFn ==
    \/ SelectUrl /\ UNCHANGED <<git_vars, ext_vars, run_vars, act_vars, clone_vars>>
    \/ ReadSteps /\ UNCHANGED <<git_vars, ext_vars, run_vars, act_vars, clone_vars>>

FnSpec == InitFn /\ [][NextFn]_vars

(***************************************************************************)
(* CloneAction                                                             *)
(*                                                                         *)
(* _git is a call that either succeeds or fails with its GitException (its *)
(* retry loop is the subject of GitSpec).  os.remove and shutil.rmtree are *)
(* taken to succeed: the work directory is the action's own.               *)
(***************************************************************************)
\* What can be found at repo_dir: nothing, a file, a directory without or
\* with a .git subdirectory, or a path os.lstat cannot inspect.
Targets == {"absent", "file", "dir", "repo", "unreadable"}

\* The extension objects an action is made with.
Ghes ==
    [repo_name : {"repo", "r2"},
     repo_url : {"git://github/some/repo", "ssh://host/r.git"},
     repo_branch : {"master", "dev"}]
WorkDirs == {"/work", "/tmp/w"}

\* os.path.join(work_dir, self.ghe.repo_name)
repo_dir == work_dir \o "/" \o ghe.repo_name

\* A call into the os, shutil or os.path modules, and an assignment to
\* ctxt.environment.cwd.
OsEvent(op, path, ret) == [op |-> op, path |-> path, ret |-> ret]
CwdEvent(path) == [op |-> "cwd", path |-> path]

\* A call of _git with its keyword arguments (ssh_retries defaults to 1,
\* do_raise to True), the directory it ran in and whether the command
\* succeeded.
GitEvent(call, at, ok) ==
    [op |-> "git", args |-> call.args, ssh_retries |-> call.ssh_retries,
     do_raise |-> call.do_raise, cwd |-> at, ok |-> ok]
GitCall(args, retries, raise) ==
    [args |-> args, ssh_retries |-> retries, do_raise |-> raise]

\* The clone command without retries.
CloneCommandNoRetries(g, target_dir) ==
    GitCall(<<"clone", g.repo_url, target_dir>>, 1, TRUE)

\* The _git call of _clone.
CloneCommand(g, target_dir) ==
    GitCall(<<"clone", g.repo_url, target_dir>>, 5, TRUE)

\* The _git calls of _update with a retried clean instead of a retried
\* fetch.
UpdateCommandsRetryClean(g) ==
    << GitCall(<<"remote", "set-url", "origin", g.repo_url>>, 1, TRUE),
       GitCall(<<"rebase", "--abort">>, 1, FALSE),
       GitCall(<<"checkout", "-f", g.repo_branch>>, 1, TRUE),
       GitCall(<<"reset", "--hard", "origin/" \o g.repo_branch>>, 1, TRUE),
       GitCall(<<"clean", "-fdx">>, 5, TRUE),
       GitCall(<<"fetch", "origin", g.repo_branch>>, 1, TRUE),
       GitCall(<<"checkout", g.repo_branch>>, 1, TRUE) >>

\* The _git calls of _update, in order.
UpdateCommands(g) ==
    << GitCall(<<"remote", "set-url", "origin", g.repo_url>>, 1, TRUE),
       GitCall(<<"rebase", "--abort">>, 1, FALSE),
       GitCall(<<"checkout", "-f", g.repo_branch>>, 1, TRUE),
       GitCall(<<"reset", "--hard", "origin/" \o g.repo_branch>>, 1, TRUE),
       GitCall(<<"clean", "-fdx">>, 1, TRUE),
       GitCall(<<"fetch", "origin", g.repo_branch>>, 5, TRUE),
       GitCall(<<"checkout", g.repo_branch>>, 1, TRUE) >>

\* timid.StepResult(state=timid.SUCCESS)
StepResult(state) == [kind |-> "return", value |-> [state |-> state]]

\* The OSError of os.lstat.
OSError(errno) == [kind |-> "raise", exc |-> "OSError", errno |-> errno]

\* The exception a failed _git call raises when do_raise is true.
GitFailure(call) == GitException(Cmd(call.args), 1)

At(at, mode, next) == [at |-> at, mode |-> mode, next |-> next]

InitClone ==
    /\ GitIdle
    /\ ExtIdle
    /\ RunIdle
    /\ ActIdle
    /\ FnIdle
    /\ ghe \in Ghes
    /\ work_dir \in WorkDirs
    /\ target \in Targets
    /\ cwd = work_dir
    /\ clone_pc = At("start", "none", 0)
    /\ clone_trace = <<>>
    /\ clone_result = NoResult

\* os.lstat(repo_dir): the errno of its OSError, or the kind of file the
\* st_mode tells.
lstat(t) ==
    CASE t = "absent" -> "ENOENT"
      [] t = "unreadable" -> "EACCES"
      [] t = "file" -> "file"
      [] t \in {"dir", "repo"} -> "dir"

\* os.path.isdir(os.path.join(repo_dir, '.git'))
isdir_git(t) == t = "repo"

\* Every OSError of os.lstat taken as "does not exist".
PropagatesNever(errno) == FALSE

\* "if e.errno != errno.ENOENT: raise"
Propagates(errno) == errno # "ENOENT"

\* No change of directory before _update.
UpdateDirUnchanged(work, repo) == work

\* "ctxt.environment.cwd = repo_dir" (__call__) and
\* "ctxt.environment.cwd = target_dir" (_clone): where _update runs.
UpdateDir(work, repo) == repo

\* Every existing target removed with os.remove.
CleanUpRemoveOnly(st, path) == <<OsEvent("remove", path, None)>>

\* The removal of what is in the way of a clone: os.remove for what is not
\* a directory, shutil.rmtree for a directory.
CleanUp(st, path) ==
    IF st = "dir"
    THEN <<OsEvent("rmtree", path, None)>>
    ELSE <<OsEvent("remove", path, None)>>

\* The directory left where the failed update ran.
RestoreDirNever(work, now) == now

\* "ctxt.environment.cwd = work_dir" in the exception handlers of __call__
\* and of _clone.
RestoreDir(work, now) == work

\* Every failed update followed by a fresh clone.
OnUpdateFailureClone(mode) == "clone"

\* A failed update in place raised to the caller.
OnUpdateFailureRaise(mode) == "raise"

\* What follows an exception of _update: __call__ catches it and clones
\* afresh, _clone raises it again.
OnUpdateFailure(mode) == IF mode = "inplace" THEN "clone" ELSE "raise"

\* CloneAction.__call__ up to its first _git call: the probe of repo_dir
\* and the clean-up each finding asks for.
CloneCall ==
    /\ clone_pc.at = "start"
    /\ LET st == lstat(target)
           probe == <<OsEvent("lstat", repo_dir, st)>>
           git_dir == OsEvent("isdir", repo_dir \o "/.git", isdir_git(target))
       IN  IF st \in {"ENOENT", "EACCES"}
           THEN IF Propagates(st)
                THEN /\ clone_trace' = probe
                     /\ clone_result' = OSError(st)
                     /\ clone_pc' = At("done", "none", 0)
                     /\ UNCHANGED <<target, cwd>>
                ELSE /\ clone_trace' = probe
                     /\ clone_pc' = At("clone", "none", 0)
                     /\ UNCHANGED <<target, cwd, clone_result>>
           ELSE IF st # "dir"
           THEN /\ clone_trace' = probe \o CleanUp(st, repo_dir)
                /\ target' = "absent"
                /\ clone_pc' = At("clone", "none", 0)
                /\ UNCHANGED <<cwd, clone_result>>
           ELSE IF isdir_git(target)
           THEN /\ clone_trace' = probe \o
                        <<git_dir, CwdEvent(UpdateDir(work_dir, repo_dir))>>
                /\ cwd' = UpdateDir(work_dir, repo_dir)
                /\ clone_pc' = At("update", "inplace", 1)
                /\ UNCHANGED <<target, clone_result>>
           ELSE /\ clone_trace' = probe \o <<git_dir>> \o CleanUp(st, repo_dir)
                /\ target' = "absent"
                /\ clone_pc' = At("clone", "none", 0)
                /\ UNCHANGED <<cwd, clone_result>>
    /\ UNCHANGED <<ghe, work_dir>>

\* _clone: the clone command, then the change of directory that precedes
\* _update.
CloneGit ==
    /\ clone_pc.at = "clone"
    /\ \E ok \in BOOLEAN :
           LET call == CloneCommand(ghe, repo_dir) IN
           IF ok
           THEN /\ clone_trace' = clone_trace \o
                        << GitEvent(call, cwd, TRUE),
                           CwdEvent(UpdateDir(work_dir, repo_dir)) >>
                /\ target' = "repo"
                /\ cwd' = UpdateDir(work_dir, repo_dir)
                /\ clone_pc' = At("update", "cloned", 1)
                /\ UNCHANGED clone_result
           ELSE /\ clone_trace' = Append(clone_trace, GitEvent(call, cwd, FALSE))
                /\ clone_result' = GitFailure(call)
                /\ clone_pc' = At("done", "none", 0)
                /\ UNCHANGED <<target, cwd>>
    /\ UNCHANGED <<ghe, work_dir>>

\* The next _git call of _update, and what its callers do when it raises:
\* __call__ restores the directory, removes the tree and clones; _clone
\* restores the directory and raises the exception again.
UpdateGit ==
    /\ clone_pc.at = "update"
    /\ \E ok \in BOOLEAN :
           LET call == UpdateCommands(ghe)[clone_pc.next]
               done == Append(clone_trace, GitEvent(call, cwd, ok))
           IN  IF ok \/ ~call.do_raise
               THEN /\ clone_trace' = done
                    /\ IF clone_pc.next = Len(UpdateCommands(ghe))
                       THEN /\ clone_result' = StepResult(SUCCESS)
                            /\ clone_pc' = At("done", "none", 0)
                       ELSE /\ clone_pc' = [clone_pc EXCEPT !.next = @ + 1]
                            /\ UNCHANGED clone_result
                    /\ UNCHANGED <<target, cwd>>
               ELSE IF OnUpdateFailure(clone_pc.mode) = "clone"
               THEN /\ clone_trace' = done \o <<CwdEvent(RestoreDir(work_dir, cwd))>>
                                            \o CleanUp("dir", repo_dir)
                    /\ cwd' = RestoreDir(work_dir, cwd)
                    /\ target' = "absent"
                    /\ clone_pc' = At("clone", "none", 0)
                    /\ UNCHANGED clone_result
               ELSE /\ clone_trace' = Append(done, CwdEvent(RestoreDir(work_dir, cwd)))
                    /\ cwd' = RestoreDir(work_dir, cwd)
                    /\ clone_result' = GitFailure(call)
                    /\ clone_pc' = At("done", "none", 0)
                    /\ UNCHANGED target
    /\ UNCHANGED <<ghe, work_dir>>

NextClone ==
    \/ CloneCall /\ UNCHANGED <<git_vars, ext_vars, run_vars, act_vars, fn_vars>>
    \/ CloneGit /\ UNCHANGED <<git_vars, ext_vars, run_vars, act_vars, fn_vars>>
    \/ UpdateGit /\ UNCHANGED <<git_vars, ext_vars, run_vars, act_vars, fn_vars>>

CloneSpec == InitClone /\ [][NextClone]_vars

(***************************************************************************)
(* MergeAction                                                             *)
(*                                                                         *)
(* The action has its extension object in ghe, its position in clone_pc,   *)
(* what it did in clone_trace and its outcome in clone_result.  Each _git  *)
(* call runs the loop of _git, one subprocess for each pass (the sleeps    *)
(* between passes are left to GitSpec).                                    *)
(***************************************************************************)
\* The extension objects a MergeAction is made with: ghe.pull.user.login,
\* ghe.change_branch, ghe.change_url and ghe.repo_branch.
MergeGhes ==
    [pull_user_login : {"user-login", "octo"},
     change_branch : {"change-branch", "fix"},
     change_url : {"https://change/repo"},
     repo_branch : {"master", "dev"}]

\* What a subprocess of the action gives back.
MergeChildren ==
    [returncode : {0, 1}, stdout : {<<"out1">>}, stderr : {<<>>, <<SSH_ERROR>>}]

\* '%s-%s' % (self.ghe.pull.user.login, self.ghe.change_branch)
local_branch(g) == g.pull_user_login \o "-" \o g.change_branch

\* The _git calls of MergeAction with a pull that asks for retries.
MergeCommandsRetryPull(g) ==
    << GitCall(<<"branch", "-D", local_branch(g)>>, 1, FALSE),
       GitCall(<<"checkout", "-b", local_branch(g), g.repo_branch>>, 1, TRUE),
       GitCall(<<"pull", g.change_url, g.change_branch>>, 5, TRUE),
       GitCall(<<"checkout", g.repo_branch>>, 1, TRUE),
       GitCall(<<"merge", local_branch(g)>>, 1, TRUE) >>

\* The _git calls of MergeAction.__call__, in order.
MergeCommands(g) ==
    << GitCall(<<"branch", "-D", local_branch(g)>>, 1, FALSE),
       GitCall(<<"checkout", "-b", local_branch(g), g.repo_branch>>, 1, TRUE),
       GitCall(<<"pull", g.change_url, g.change_branch>>, 1, TRUE),
       GitCall(<<"checkout", g.repo_branch>>, 1, TRUE),
       GitCall(<<"merge", local_branch(g)>>, 1, TRUE) >>

\* ctxt.environment.call(cmd, ...) and child.communicate() of the k-th
\* _git call.
SubprocessEvent(k, call, c) ==
    [op |-> "call", k |-> k, cmd |-> Cmd(call.args),
     ssh_retries |-> call.ssh_retries, do_raise |-> call.do_raise, child |-> c]

\* The action in the loop of its k-th _git call, after the given number of
\* tries, the last of which gave child c.
InGit(at, k, tries, c) == [at |-> at, next |-> k, tries |-> tries, child |-> c]

InitMerge ==
    /\ GitIdle
    /\ ExtIdle
    /\ RunIdle
    /\ ActIdle
    /\ FnIdle
    /\ ghe \in MergeGhes
    /\ work_dir = "/work"
    /\ target = "repo"
    /\ cwd = "/work/repo"
    /\ clone_pc = InGit("loop", 1, 0, Unbound)
    /\ clone_trace = <<>>
    /\ clone_result = NoResult

\* One pass of the loop of the current _git call.
MergeTry ==
    /\ clone_pc.at = "loop"
    /\ LoopTest(clone_pc.tries, MergeCommands(ghe)[clone_pc.next].ssh_retries)
    /\ \E c \in MergeChildren :
           /\ clone_trace' = Append(clone_trace,
                  SubprocessEvent(clone_pc.next, MergeCommands(ghe)[clone_pc.next], c))
           /\ clone_pc' = InGit(IF NeedRetry(c) THEN "loop" ELSE "after",
                                clone_pc.next, clone_pc.tries + 1, c)
    /\ UNCHANGED <<ghe, work_dir, target, cwd, clone_result>>

\* The end of the current _git call: its exception ends the action, its
\* return leads to the next call or, after the last one, to the return of
\* the action.
MergeAfter ==
    /\ \/ clone_pc.at = "after"
       \/ /\ clone_pc.at = "loop"
          /\ ~LoopTest(clone_pc.tries, MergeCommands(ghe)[clone_pc.next].ssh_retries)
    /\ LET call == MergeCommands(ghe)[clone_pc.next] IN
       IF clone_pc.child = Unbound
       THEN /\ clone_result' = UnboundLocalError
            /\ clone_pc' = InGit("done", clone_pc.next, clone_pc.tries, clone_pc.child)
       ELSE IF RaiseTest(call.do_raise, clone_pc.child)
       THEN /\ clone_result' = GitException(Cmd(call.args), clone_pc.child.returncode)
            /\ clone_pc' = InGit("done", clone_pc.next, clone_pc.tries, clone_pc.child)
       ELSE IF clone_pc.next = Len(MergeCommands(ghe))
       THEN /\ clone_result' = StepResult(SUCCESS)
            /\ clone_pc' = InGit("done", clone_pc.next, clone_pc.tries, clone_pc.child)
       ELSE /\ clone_pc' = InGit("loop", clone_pc.next + 1, 0, Unbound)
            /\ UNCHANGED clone_result
    /\ UNCHANGED <<ghe, work_dir, target, cwd, clone_trace>>

NextMerge ==
    \/ MergeTry /\ UNCHANGED <<git_vars, ext_vars, run_vars, act_vars, fn_vars>>
    \/ MergeAfter /\ UNCHANGED <<git_vars, ext_vars, run_vars, act_vars, fn_vars>>

MergeSpec == InitMerge /\ [][NextMerge]_vars

(***************************************************************************)
(* Reading the trace of a _git call.                                       *)
(***************************************************************************)
IsCall(e) == e.ev = "call"
IsSleep(e) == e.ev = "sleep"
CallsOf(tr) == SelectSeq(tr, IsCall)
SleepsOf(tr) == SelectSeq(tr, IsSleep)
NumCalls == Len(CallsOf(git_trace))
NumSleeps == Len(SleepsOf(git_trace))
\* the child of the k-th subprocess invocation
Attempt(k) == CallsOf(git_trace)[k].child
\* a non-zero exit with the SSH marker in stdout or in stderr, spelled out
MarkerFailure(c) ==
    /\ c.returncode \in {1, 128}
    /\ \/ \E i \in 1 .. Len(c.stdout) : c.stdout[i] = SSH_ERROR
       \/ \E i \in 1 .. Len(c.stderr) : c.stderr[i] = SSH_ERROR

RECURSIVE Pow2(_)
Pow2(n) == IF n = 0 THEN 1 ELSE 2 * Pow2(n - 1)

\* sleep/call and the seconds slept, event by event
Shape(tr) == [i \in 1 .. Len(tr) |-> <<tr[i].ev, tr[i].secs>>]

\* call, sleep 1, call, sleep 2, call, sleep 4, ... : n calls
RECURSIVE ExpectedShape(_)
ExpectedShape(n) ==
    IF n = 0 THEN <<>>
    ELSE IF n = 1 THEN << <<"call", 0>> >>
    ELSE ExpectedShape(n - 1) \o << <<"sleep", Pow2(n - 2)>>, <<"call", 0>> >>

\* The subprocess outcomes so far follow the script "R-1 failures with the
\* SSH marker, then a success", R being ssh_retries.
FailThenSucceed ==
    \A k \in 1 .. NumCalls :
        /\ k < ssh_retries => MarkerFailure(Attempt(k))
        /\ k = ssh_retries => Attempt(k).returncode = 0

\* Every one of the first R subprocess outcomes so far is a failure with the
\* SSH marker.
AllMarkerFailures ==
    \A k \in 1 .. NumCalls : k <= ssh_retries => MarkerFailure(Attempt(k))

\* C1: with R = ssh_retries >= 1, R-1 failures with the SSH marker and then a
\* success make _git run the command exactly R times, sleep 1, 2, 4, ...,
\* 2^(R-2) seconds, each sleep right before the next run and none before the
\* first, and return the stdout of the R-th run.
C1_RetriesThenSuccess ==
    (git_pc = "done" /\ ssh_retries >= 1 /\ FailThenSucceed) =>
        /\ NumCalls = ssh_retries
        /\ NumSleeps = ssh_retries - 1
        /\ Shape(git_trace) = ExpectedShape(ssh_retries)
        /\ \A k \in 1 .. NumCalls : CallsOf(git_trace)[k].cmd = <<"git">> \o git_args
        /\ git_result = [kind |-> "return", value |-> Attempt(ssh_retries).stdout]

C1_Witness ==
    /\ git_pc = "done" /\ ssh_retries = MaxRetries /\ FailThenSucceed
    /\ NumCalls = MaxRetries
    /\ git_result.kind = "return"

\* the command line a GitException carries, written out for each argument list
ExpectedCommand ==
    IF git_args = <<"status">> THEN "git status" ELSE "git clone 'a b'"

\* C2: with R = ssh_retries >= 1 and do_raise true, R failures with the SSH
\* marker make _git raise GitException after exactly R runs of the command
\* and R-1 sleeps; the exception carries the quoted command line and the
\* exit code of the R-th run; there is no run R+1.
C2_RetriesExhausted ==
    (git_pc = "done" /\ ssh_retries >= 1 /\ do_raise /\ AllMarkerFailures) =>
        /\ NumCalls = ssh_retries
        /\ NumSleeps = ssh_retries - 1
        /\ git_result.kind = "raise"
        /\ git_result.exc = "GitException"
        /\ git_result.command = ExpectedCommand
        /\ git_result.returncode = Attempt(ssh_retries).returncode

C2_Witness ==
    /\ git_pc = "done" /\ ssh_retries = MaxRetries /\ do_raise /\ AllMarkerFailures
    /\ git_args = <<"clone", "a b">>
    /\ Attempt(1).returncode = 1 /\ Attempt(MaxRetries).returncode = 128
    /\ git_result.kind = "raise"

\* C3: a run of the command is followed by another run only if it exited
\* non-zero with the SSH marker in its stdout or stderr; after any other run
\* (non-zero without the marker, or zero even with the marker) the loop is
\* over: no further run and no further sleep.
C3_RetryOnlyOnMarkerFailure ==
    /\ \A k \in 1 .. NumCalls - 1 : MarkerFailure(Attempt(k))
    /\ (NumCalls >= 1 /\ ~MarkerFailure(Attempt(NumCalls))) => git_pc # "loop"
    /\ git_trace # <<>> => git_trace[Len(git_trace)].ev = "call"
    /\ NumSleeps = IF NumCalls = 0 THEN 0 ELSE NumCalls - 1

C3_Witness ==
    /\ git_pc = "done" /\ ssh_retries = MaxRetries
    /\ NumCalls = 2
    /\ Attempt(2).returncode = 0
    /\ Attempt(2).stderr = <<SSH_ERROR>>

\* C4: with do_raise false _git never raises GitException; whatever the exit
\* code of the last run of the command, it returns the stdout of that run.
C4_NoRaise ==
    ~do_raise =>
        /\ ~(git_result.kind = "raise" /\ git_result.exc = "GitException")
        /\ (git_pc = "done" /\ NumCalls >= 1) =>
               git_result = [kind |-> "return", value |-> Attempt(NumCalls).stdout]

C4_Witness ==
    /\ git_pc = "done" /\ ~do_raise
    /\ NumCalls = ssh_retries /\ ssh_retries >= 2
    /\ MarkerFailure(Attempt(NumCalls))
    /\ Attempt(NumCalls).stdout = <<"out1", SSH_ERROR>>
    /\ Attempt(1).stdout = <<"out2">>
    /\ git_result.kind = "return"

(***************************************************************************)
(* Reading the record of the last callback.                                *)
(***************************************************************************)
\* what create_status is handed for a text or URL of a _set_status call
Sent(x) == IF x = None \/ x = "" THEN NotSet ELSE x
\* the create_status call of a _set_status call, field by field
SentStatus(r) == [status |-> r.status, url |-> Sent(r.url), text |-> Sent(r.text)]
LastSent == statuses[Len(statuses)]
\* the callback made one create_status call, and it is the last in statuses
\* unless it raised
OneReport(r) ==
    /\ last_call.report = <<r>>
    /\ IF last_call.raised
       THEN Len(statuses) = last_call.nstatuses /\ last_status = last_call.prev
       ELSE /\ Len(statuses) = last_call.nstatuses + 1
            /\ LastSent = SentStatus(r)
            /\ last_status = <<r>>
\* the callback made no create_status call
NoReport ==
    /\ last_call.report = <<>>
    /\ ~last_call.raised
    /\ Len(statuses) = last_call.nstatuses
    /\ last_status = last_call.prev

\* C5: last_status is None exactly when no status was transmitted; otherwise
\* it holds the status, text and url of the last status transmitted (None or
\* empty text and url going out as NotSet); a callback whose create_status
\* call raised leaves it as it was, and one whose call returned leaves the
\* status it reported.
C5_LastStatusMirrorsTransmitted ==
    /\ (last_status = <<>>) <=> (statuses = <<>>)
    /\ last_status # <<>> => LastSent = SentStatus(last_status[1])
    /\ last_call.raised =>
           last_status = last_call.prev /\ Len(statuses) = last_call.nstatuses
    /\ (last_call.report # <<>> /\ ~last_call.raised) =>
           last_status = last_call.report /\ Len(statuses) = last_call.nstatuses + 1

C5_Witness ==
    /\ last_call.raised
    /\ last_call.prev # <<>>
    /\ last_call.prev[1].status = "pending"
    /\ last_call.report[1].status = "failure"
    /\ last_status = last_call.prev

\* the reports of the last step's post_step and of finalize, together
TerminalReports == last_call.step_reports + Len(last_call.report)
\* a finalize ending a run made in the runner's order, all transmitted
RunEnded == last_call.op = "finalize" /\ last_call.phase = "final"

\* C6 as claimed: at the end of any run the terminal reports of the last
\* step's post_step and of finalize together number exactly one.
C6_ExactlyOneTerminalReport ==
    RunEnded => TerminalReports = 1

\* C6 as amended: at the end of a run made in the runner's order, finalize
\* makes one report of its own when the result is None or an exception,
\* whatever the last step's post_step reported (two terminal reports after a
\* failure or error report, one otherwise); for any other result the
\* terminal reports number one if a step was announced and none if not.
C6_TerminalReports ==
    RunEnded =>
        /\ last_call.result.kind \in {"none", "exception"} =>
               /\ Len(last_call.report) = 1
               /\ TerminalReports = 1 + last_call.step_reports
        /\ last_call.result.kind = "other" =>
               TerminalReports = IF last_call.before = "start" THEN 0 ELSE 1
        /\ Len(statuses) = last_call.nstatuses + Len(last_call.report)

C6_Witness ==
    /\ RunEnded
    /\ last_call.result.kind = "none"
    /\ last_call.before = "post"
    /\ last_call.step_reports = 1
    /\ TerminalReports = 2

\* C7: pre_step, whatever the last status, reports pending with the step's
\* name and the status URL, and returns None.
C7_PreStepUnconditional ==
    last_call.op = "pre_step" =>
        /\ OneReport([status |-> "pending", text |-> last_call.name, url |-> status_url])
        /\ ~last_call.raised => last_call.ret = [kind |-> "none", str |-> "None"]

C7_Witness ==
    /\ last_call.op = "pre_step"
    /\ ~last_call.raised
    /\ last_call.prev # <<>>
    /\ last_call.prev[1].status = "success"
    /\ last_status[1].status = "pending"

\* the message post_step reports for a step named A that failed or erred
ExpectedMsg(outcome) ==
    IF outcome.msg \in {"oops"} THEN outcome.msg
    ELSE IF outcome.state = "FAILURE" THEN "Failed: A" ELSE "Error: A"

\* C8: post_step with a result that is not ok makes exactly one report,
\* with the status URL: failure for state FAILURE, error for state ERROR,
\* with the result's own message or else "Failed: <name>" / "Error: <name>".
C8_PostStepNotOk ==
    (/\ last_call.op = "post_step"
     /\ ~last_call.outcome.ok
     /\ last_call.outcome.state \in {"FAILURE", "ERROR"}) =>
        OneReport([status |-> IF last_call.outcome.state = "FAILURE"
                              THEN "failure" ELSE "error",
                   text |-> ExpectedMsg(last_call.outcome),
                   url |-> status_url])

C8_Witness ==
    /\ last_call.op = "post_step"
    /\ last_call.outcome = [ok |-> FALSE, state |-> "ERROR", msg |-> "oops"]
    /\ ~last_call.raised
    /\ status_url = "http://ci"
    /\ LastSent = [status |-> "error", url |-> "http://ci", text |-> "oops"]

\* C9: post_step with a result that is ok (success, skipped) makes no report
\* and leaves last_status as it was.
C9_PostStepOk ==
    (last_call.op = "post_step" /\ last_call.outcome.ok) => NoReport

C9_Witness ==
    /\ last_call.op = "post_step"
    /\ last_call.outcome.state = "SKIPPED"
    /\ last_call.before = "pre"
    /\ last_status # <<>>
    /\ last_status[1].status = "pending"

\* C10: finalize with None makes exactly one report, the final_status
\* dictionary (its status, text and own url), whatever was reported before.
C10_FinalizeNone ==
    (last_call.op = "finalize" /\ last_call.result.kind = "none") =>
        OneReport([status |-> final_status.status, text |-> final_status.text,
                   url |-> final_status.url])

C10_Witness ==
    /\ last_call.op = "finalize"
    /\ last_call.result.kind = "none"
    /\ ~last_call.raised
    /\ last_call.prev # <<>>
    /\ last_call.prev[1].status = "failure"
    /\ status_url = "http://ci"
    /\ LastSent = [status |-> "pending", url |-> "http://override", text |-> "held"]

(***************************************************************************)
(* finalize with an exception or another value                             *)
(***************************************************************************)
IsFinalize(kind) == last_call.op = "finalize" /\ last_call.result.kind = kind

LastWas(status) == last_call.prev # Nothing /\ last_call.prev[1].status = status

\* C11: finalize with an exception result always makes the report "error",
\* "Exception while running timid: <result>", under the configured status URL
\* and not the final status's URL, whatever the last reported status is.
C11_FinalizeException ==
    IsFinalize("exception") =>
        /\ last_call.result.str = "kaboom"
        /\ OneReport([status |-> "error",
                      text |-> "Exception while running timid: kaboom",
                      url |-> status_url])

\* An exception result after a step failure was reported, with a final
\* status whose URL is not the configured one.
C11_Witness ==
    /\ IsFinalize("exception")
    /\ LastWas("failure")
    /\ ~last_call.raised
    /\ final_status.url # status_url
    /\ LastSent = [status |-> "error", url |-> "http://ci",
                   text |-> "Exception while running timid: kaboom"]

\* C12: finalize with a result that is neither None nor an exception reports
\* "failure", "Testing failed: <result>", under the configured status URL if
\* and only if the last reported status is "pending"; with no last status or
\* any other it reports nothing and leaves the last status as it was.
C12_FinalizeOther ==
    IsFinalize("other") =>
        IF LastWas("pending")
        THEN OneReport([status |-> "failure",
                        text |-> IF last_call.result.str = "boom"
                                 THEN "Testing failed: boom"
                                 ELSE "Testing failed: 1",
                        url |-> status_url])
        ELSE NoReport

\* Both sides occur: a failure reported over a pending status ...
C12_Witness ==
    /\ IsFinalize("other")
    /\ LastWas("pending")
    /\ ~last_call.raised
    /\ LastSent.status = "failure" /\ LastSent.text = "Testing failed: boom"

\* ... and nothing reported when no status was reported before.
C12_WitnessUnset ==
    /\ IsFinalize("other")
    /\ last_call.prev = Nothing
    /\ statuses = <<>> /\ last_status = Nothing

\* C13: whenever finalize returns, for None, an exception or any other value
\* and after any history, it returns exactly the result it was given.
C13_FinalizeReturnsResult ==
    (last_call.op = "finalize" /\ ~last_call.raised) =>
        last_call.ret = last_call.result

\* finalize returned a result other than None after two earlier reports.
C13_Witness ==
    /\ last_call.op = "finalize" /\ ~last_call.raised
    /\ last_call.nstatuses = 2
    /\ last_call.result.kind = "other"
    /\ last_call.ret = last_call.result

\* C14 as stated: finalize returns the result it was given whether the
\* report it attempts is transmitted or not.
C14_ReturnsWhateverTheReport ==
    (last_call.op = "finalize" /\ last_call.report # Nothing) =>
        last_call.ret = last_call.result

\* C14: finalize returns the result it was given when the report it attempts
\* is transmitted; when create_status raises, the exception leaves finalize,
\* no value is returned and nothing is recorded.
C14_ReturnsUnlessReportRaises ==
    (last_call.op = "finalize" /\ last_call.report # Nothing) =>
        IF last_call.raised
        THEN /\ last_call.ret = Raised
             /\ last_status = last_call.prev
             /\ Len(statuses) = last_call.nstatuses
        ELSE last_call.ret = last_call.result

\* A finalize whose report could not be transmitted.
C14_Witness ==
    /\ last_call.op = "finalize"
    /\ last_call.report # Nothing
    /\ last_call.raised
    /\ last_call.ret # last_call.result

(***************************************************************************)
(* Runs given callback by callback                                         *)
(***************************************************************************)
\* The run is over and every report it made was transmitted.
RunDone ==
    /\ run_pc = Len(run_script) + 1
    /\ last_call.op = "finalize"
    /\ last_call.phase = "final"

\* The transmitted reports as <<status, text>> pairs.
Reported == [i \in 1 .. Len(statuses) |-> <<statuses[i].status, statuses[i].text>>]

IsFailingRun == \E r \in FinalResults : run_script = FailingRun(r)

\* C15 as stated: the run [pre A, post A success, pre B, post B failure
\* "oops", finalize(string)] yields exactly the reports pending/A,
\* failure/"oops".
C15_TwoReports ==
    (IsFailingRun /\ RunDone) =>
        Reported = << <<"pending", "A">>, <<"failure", "oops">> >>

\* C15: the run [pre A, post A success, pre B, post B failure "oops",
\* finalize(string)] yields exactly the reports pending/A, pending/B,
\* failure/"oops", each under the configured status URL; finalize adds none,
\* the last reported status being "failure" when it runs.
C15_FailingRunReports ==
    (IsFailingRun /\ RunDone) =>
        /\ Reported = << <<"pending", "A">>, <<"pending", "B">>,
                         <<"failure", "oops">> >>
        /\ \A i \in 1 .. Len(statuses) : statuses[i].url = OrNotSet(status_url)
        /\ LastWas("failure")
        /\ NoReport

C15_Witness ==
    /\ IsFailingRun /\ RunDone
    /\ Len(statuses) = 3
    /\ last_call.result.str = "boom"

\* C16: the run [pre A, finalize("boom")], aborted before post_step of A,
\* yields exactly the reports pending/A, then failure/"Testing failed:
\* boom", the last reported status being "pending" when finalize runs.
C16_AbortedRunReports ==
    (run_script = AbortedRun /\ RunDone) =>
        /\ Reported = << <<"pending", "A">>,
                         <<"failure", "Testing failed: boom">> >>
        /\ \A i \in 1 .. Len(statuses) : statuses[i].url = OrNotSet(status_url)
        /\ LastWas("pending")

C16_Witness ==
    /\ run_script = AbortedRun /\ RunDone
    /\ Len(statuses) = 2
    /\ last_status = Some(Report("failure", "Testing failed: boom", status_url))

(***************************************************************************)
(* activate                                                                *)
(***************************************************************************)
\* activate has run, and returned an instance.
Activated == act_result # NoResult
Made == act_result.kind = "instance"

\* The calls of one function in activate's trace, and their arguments.
CallsTo(fn) == SelectSeq(act_trace, LAMBDA e : e.fn = fn)
ArgsTo(fn) == [i \in 1 .. Len(CallsTo(fn)) |-> CallsTo(fn)[i].args]
PositionOf(fn) == CHOOSE i \in 1 .. Len(act_trace) : act_trace[i].fn = fn

\* The combined override document has the key.
DocumentHas(key) ==
    /\ ~Falsy(act_args[1].github_override)
    /\ OverrideRaw(act_args[1]).type = "object"
    /\ key \in DOMAIN OverrideRaw(act_args[1]).obj

\* C17: for each of status, text and url, a discrete override that is given
\* wins over the combined override document's value, and a field with no
\* discrete override takes the document's value if the document has the key.
C17_DiscreteOverrideWins ==
    Made =>
        /\ act_args[1].github_override_status # None
               => final_status.status = act_args[1].github_override_status
        /\ act_args[1].github_override_text # None
               => final_status.text = act_args[1].github_override_text
        /\ act_args[1].github_override_url # None
               => final_status.url = act_args[1].github_override_url
        /\ (act_args[1].github_override_status = None /\ DocumentHas("status"))
               => final_status.status = OverrideRaw(act_args[1]).obj["status"]
        /\ (act_args[1].github_override_text = None /\ DocumentHas("text"))
               => final_status.text = OverrideRaw(act_args[1]).obj["text"]
        /\ (act_args[1].github_override_url = None /\ DocumentHas("url"))
               => final_status.url = OverrideRaw(act_args[1]).obj["url"]

\* The selector is neither [owner/]repo#number nor a JSON object.
Malformed(text) ==
    /\ ~(/\ partition(text, "#")[1] # <<>>
         /\ partition(text, "#")[2] = <<"#">>
         /\ isdigit(partition(text, "#")[3]))
    /\ json_loads(text).type # "object"

\* A lookup of the repository or of the pull request failed.
LookupFailed ==
    \E i \in 1 .. Len(act_trace) :
        /\ act_trace[i].fn \in {"gh.get_repo", "repo.get_pull"}
        /\ act_trace[i].ret = Raises

\* C18: activate returns None whenever no selector was given or the
\* selector cannot be resolved to a pull request: the number after "#" is
\* empty or not numeric, the selector is malformed, or a lookup fails.
C18_UnresolvedReturnsNone ==
    (/\ Activated
     /\ \/ NoPull(act_args[1])
        \/ Malformed(act_args[1].github_pull[1])
        \/ LookupFailed)
    => act_result = Inactive

\* The lookups activate made: the repository names and the pull numbers.
LookedUp == <<ArgsTo("gh.get_repo"), ArgsTo("repo.get_pull")>>
Selector(text) == Activated /\ act_args[1].github_pull = Some(text)
RepoFound == CallsTo("gh.get_repo")[1].ret # Raises

\* C19: for a selector [owner/]repo#number the repository looked up is
\* "owner/repo" when an owner is given and "<user>/repo" when the repo part
\* has no "/", and the pull request looked up is the integer value of
\* number: with user "example", "repo#5" looks up "example/repo" and 5,
\* "repo#05" the same, "owner/repo#12" looks up "owner/repo" and 12.
C19_SelectorLookup ==
    /\ Activated => act_args[1].github_user = "example"
    /\ (Selector(<<"repo", "#", "5">>) \/ Selector(<<"repo", "#", "0", "5">>))
           => /\ ArgsTo("gh.get_repo") = << <<"example/repo">> >>
              /\ ArgsTo("repo.get_pull") = IF RepoFound THEN << <<5>> >> ELSE <<>>
    /\ Selector(<<"owner", "/", "repo", "#", "1", "2">>)
           => /\ ArgsTo("gh.get_repo") = << <<"owner/repo">> >>
              /\ ArgsTo("repo.get_pull") = IF RepoFound THEN << <<12>> >> ELSE <<>>

C19_Witness ==
    /\ Selector(<<"repo", "#", "5">>)
    /\ Made
    /\ LookedUp = << << <<"example/repo">> >>, << <<5>> >> >>
    /\ act_result.pull.number = 5
    /\ act_result.pull.base.repo.full_name = "example/repo"

\* The password handed to github.Github.
Resolved == CallsTo("github.Github")[1].args[2]

\* C20: the password is the explicit one, else the keyring's, else the one
\* typed at the prompt.  The keyring is read only when no explicit password
\* was given and keyring-set is not given; the prompt is issued only when
\* neither gave a password; with keyring-set the resolved password is
\* written to the keyring, after the prompt if there was one, under the
\* service "timid-github!<api url>" and the user name; without keyring-set
\* the keyring is never written.
C20_CredentialOrder ==
    (Activated /\ ~NoPull(act_args[1])) =>
        /\ Len(CallsTo("github.Github")) = 1
        /\ Len(CallsTo("keyring.get_password")) <= 1
        /\ Len(CallsTo("getpass.getpass")) <= 1
        /\ CallsTo("keyring.get_password") # <<>>
               => /\ act_args[1].github_pass = None
                  /\ ~act_args[1].github_keyring_set
                  /\ PositionOf("keyring.get_password") = 1
        /\ CallsTo("getpass.getpass") # <<>>
               => /\ act_args[1].github_pass = None
                  /\ \A i \in 1 .. Len(CallsTo("keyring.get_password")) :
                         CallsTo("keyring.get_password")[i].ret = None
        /\ Resolved =
               IF act_args[1].github_pass # None
               THEN act_args[1].github_pass
               ELSE IF /\ CallsTo("keyring.get_password") # <<>>
                       /\ CallsTo("keyring.get_password")[1].ret # None
               THEN CallsTo("keyring.get_password")[1].ret
               ELSE CallsTo("getpass.getpass")[1].ret
        /\ IF act_args[1].github_keyring_set
           THEN /\ ArgsTo("keyring.set_password")
                       = << <<"timid-github!https://api", "example", Resolved>> >>
                /\ act_args[1].github_api = "https://api"
                /\ CallsTo("getpass.getpass") # <<>>
                       => PositionOf("getpass.getpass")
                              < PositionOf("keyring.set_password")
                /\ PositionOf("keyring.set_password")
                       < PositionOf("github.Github")
           ELSE CallsTo("keyring.set_password") = <<>>

\* The password is typed at the prompt and then written to the keyring.
C20_Witness ==
    /\ Made
    /\ act_args[1].github_keyring_set
    /\ act_args[1].github_pass = None
    /\ [i \in 1 .. 3 |-> act_trace[i].fn]
           = <<"getpass.getpass", "keyring.set_password", "github.Github">>
    /\ act_trace[2].args = <<"timid-github!https://api", "example", "from_keyboard">>

(***************************************************************************)
(* post_step with a state that is none of timid's                          *)
(***************************************************************************)
UnknownState ==
    /\ last_call.op = "post_step"
    /\ ~last_call.outcome.ok
    /\ last_call.outcome.state \notin {FAILURE, ERROR}

\* C28 as stated: post_step with a not-ok outcome whose state is neither
\* FAILURE nor ERROR reports "error" under the configured status URL with
\* the outcome's own message if it has one, else the default text
\* 'Unknown state "<state>" during step: <step name>'.
C28_UnknownStateText ==
    UnknownState =>
        OneReport([status |-> "error",
                   text |-> IF last_call.outcome.msg = "oops" THEN "oops"
                            ELSE "Unknown state \"other\" during step: A",
                   url |-> status_url])

\* C28: post_step with a not-ok outcome whose state is neither FAILURE nor
\* ERROR reports "error" under the configured status URL with the outcome's
\* own message if it has one, else the default text
\* 'Unknown timid state "<state>" during step: <step name>'.
C28_UnknownTimidStateText ==
    UnknownState =>
        /\ last_call.outcome.state = "other" /\ last_call.name = "A"
        /\ OneReport([status |-> "error",
                      text |-> IF last_call.outcome.msg = "oops" THEN "oops"
                               ELSE "Unknown timid state \"other\" during step: A",
                      url |-> status_url])

\* An unknown state without a message, reported.
C28_Witness ==
    /\ UnknownState
    /\ last_call.outcome.msg = None
    /\ ~last_call.raised
    /\ LastSent.status = "error"
    /\ LastSent.text = "Unknown timid state \"other\" during step: A"

(***************************************************************************)
(* The status tokens sent                                                  *)
(***************************************************************************)
StatusTokens == {"pending", "success", "failure", "error"}

\* C27: every status token transmitted to the pull request, by any callback
\* in any run and for any configuration activate accepts (a combined
\* override document included), is one of pending, success, failure, error.
C27_StatusVocabulary ==
    \A i \in 1 .. Len(statuses) : statuses[i].status \in StatusTokens

(***************************************************************************)
(* _select_url and read_steps                                              *)
(***************************************************************************)
Selected == fn_ret # Nothing /\ fn_args[1].op = "_select_url"
StepsRead == fn_ret # Nothing /\ fn_args[1].op = "read_steps"

\* C26: _select_url returns the repository object's ssh, git or https
\* (clone) URL when the token is exactly "ssh", "git" or "https", and the
\* token itself for every other string; its arguments are left as they were.
C26_SelectUrl ==
    Selected =>
        fn_ret[1] =
            CASE fn_args[1].repo_url = "ssh" -> fn_args[1].repo_obj.ssh_url
              [] fn_args[1].repo_url = "git" -> fn_args[1].repo_obj.git_url
              [] fn_args[1].repo_url = "https" -> fn_args[1].repo_obj.clone_url
              [] fn_args[1].repo_url \notin {"ssh", "git", "https"}
                     -> fn_args[1].repo_url

C26_Witness ==
    /\ Selected
    /\ fn_args[1].repo_url = "https"
    /\ fn_args[1].repo_obj.full_name = "fork/repo"
    /\ fn_ret[1] = "https://github/fork/repo"

\* C21: read_steps on a list of n steps leaves a list of n+2 steps: the
\* clone step at index 0, the merge step at index 1, then the n steps in
\* their order; the two steps have the addresses (source file, 0) and
\* (source file, 1).
C21_ReadSteps ==
    StepsRead =>
        /\ Len(fn_ret[1]) = Len(fn_args[1].steps) + 2
        /\ fn_ret[1][1].action = "CloneAction"
        /\ fn_ret[1][1].addr = <<"timid_github.py", 0>>
        /\ fn_ret[1][2].action = "MergeAction"
        /\ fn_ret[1][2].addr = <<"timid_github.py", 1>>
        /\ \A i \in 1 .. Len(fn_args[1].steps) :
               fn_ret[1][i + 2] = fn_args[1].steps[i]

\* Three steps read, two of them alike.
C21_Witness ==
    /\ StepsRead
    /\ Len(fn_args[1].steps) = 3
    /\ fn_args[1].steps[1] = fn_args[1].steps[3]
    /\ fn_args[1].steps[1] # fn_args[1].steps[2]
    /\ Len(fn_ret[1]) = 5

(***************************************************************************)
(* CloneAction                                                             *)
(***************************************************************************)
Positions(op) == { i \in DOMAIN clone_trace : clone_trace[i].op = op }
GitPositions == Positions("git")
SubPositions(sub) == { i \in GitPositions : clone_trace[i].args[1] = sub }
ClonePositions == SubPositions("clone")
\* _update starts with "git remote set-url".
UpdatePositions == SubPositions("remote")
\* The _git calls that raised.
GitFailures == { i \in GitPositions :
                  ~clone_trace[i].ok /\ clone_trace[i].do_raise }
Min(S) == CHOOSE x \in S : \A y \in S : x <= y

\* What the probe found at the target path.
Probed == clone_trace # <<>>
FoundAbsent == Probed /\ clone_trace[1].ret = "ENOENT"
FoundFile == Probed /\ clone_trace[1].ret = "file"
FoundDir(metadata) ==
    /\ Len(clone_trace) >= 2
    /\ clone_trace[2].op = "isdir"
    /\ clone_trace[2].ret = metadata
ProbeFailed == Probed /\ clone_trace[1].ret \notin {"ENOENT", "file", "dir"}
CloneDone == clone_pc.at = "done"
RepoDir == work_dir \o "/" \o ghe.repo_name
Returned(state) == clone_result = [kind |-> "return", value |-> [state |-> state]]
RaisedGit(args) ==
    /\ clone_result.kind = "raise"
    /\ clone_result.exc = "GitException"
    /\ clone_result.command = Command(<<"git">> \o args)

C23_UpdateInPlace ==
    (FoundDir(TRUE) /\ CloneDone /\ GitFailures = {}) =>
        /\ Cardinality(UpdatePositions) = 1
        /\ \A i \in GitPositions : clone_trace[i].cwd = RepoDir
        /\ Positions("remove") = {}
        /\ Positions("rmtree") = {}
        /\ ClonePositions = {}
        /\ Returned(SUCCESS)
        /\ cwd = RepoDir
        /\ \A i \in Positions("cwd") : clone_trace[i].path = RepoDir

C23_Witness ==
    /\ FoundDir(TRUE)
    /\ CloneDone
    /\ GitFailures = {}
    /\ Len(clone_trace) = 10
    /\ cwd = "/tmp/w/r2"

\* The failures of the update in place: those before any clone.
InPlaceFailures == { i \in GitFailures : \A c \in ClonePositions : i < c }
\* The outcome of the clone path that starts after position i.
ClonePathOutcome(i) ==
    LET later == { j \in GitFailures : j > i } IN
    IF later = {} THEN Returned(SUCCESS)
    ELSE RaisedGit(clone_trace[Min(later)].args)

C25_ProbeErrorPropagates ==
    ProbeFailed =>
        /\ clone_result = [kind |-> "raise", exc |-> "OSError",
                           errno |-> clone_trace[1].ret]
        /\ Len(clone_trace) = 1
        /\ cwd = work_dir
        /\ target = "unreadable"
        /\ CloneDone

C25_Witness ==
    /\ ProbeFailed
    /\ clone_result.kind = "raise"
    /\ clone_trace[1] = [op |-> "lstat", path |-> "/work/repo", ret |-> "EACCES"]

\* C29: _clone issues the clone command first (base URL, target path,
\* ssh_retries=5); when it fails, the working directory is not changed and
\* no update is attempted; when it succeeds the working directory becomes
\* the target path and update runs; when that update fails, the working
\* directory is set back before the same error is raised; when it succeeds
\* the working directory stays at the target path.
C29_Clone ==
    \A c \in ClonePositions :
        LET e == clone_trace[c]
            later == { j \in GitFailures : j > c }
        IN  /\ e.args = <<"clone", ghe.repo_url, RepoDir>>
            /\ e.ssh_retries = 5
            /\ e.do_raise
            /\ e.cwd = work_dir
            /\ ~e.ok =>
                   /\ Len(clone_trace) = c
                   /\ cwd = work_dir
                   /\ CloneDone
                   /\ RaisedGit(e.args)
            /\ e.ok =>
                   /\ clone_trace[c + 1] = [op |-> "cwd", path |-> RepoDir]
                   /\ Len(clone_trace) > c + 1 => c + 2 \in UpdatePositions
                   /\ \A j \in GitPositions : j > c => clone_trace[j].cwd = RepoDir
                   /\ later # {} =>
                          /\ Len(clone_trace) = Min(later) + 1
                          /\ clone_trace[Min(later) + 1] = [op |-> "cwd", path |-> work_dir]
                          /\ cwd = work_dir
                          /\ CloneDone
                          /\ RaisedGit(clone_trace[Min(later)].args)
                   /\ later = {} => cwd = RepoDir
                   /\ (later = {} /\ CloneDone) => Returned(SUCCESS)

\* A clone whose update fails at the fetch.
C29_Witness ==
    /\ FoundAbsent
    /\ CloneDone
    /\ ClonePositions = {2}
    /\ clone_trace[2].ok
    /\ RaisedGit(<<"fetch", "origin", ghe.repo_branch>>)
    /\ cwd = work_dir

\* The seven commands of an update, with the retries each asks for.
ExpectedUpdate ==
    << [args |-> <<"remote", "set-url", "origin", ghe.repo_url>>, retries |-> 1],
       [args |-> <<"rebase", "--abort">>, retries |-> 1],
       [args |-> <<"checkout", "-f", ghe.repo_branch>>, retries |-> 1],
       [args |-> <<"reset", "--hard", "origin/" \o ghe.repo_branch>>, retries |-> 1],
       [args |-> <<"clean", "-fdx">>, retries |-> 1],
       [args |-> <<"fetch", "origin", ghe.repo_branch>>, retries |-> 5],
       [args |-> <<"checkout", ghe.repo_branch>>, retries |-> 1] >>
\* The number of _git calls in a row from position u on.
RunLen(u) ==
    Cardinality({ n \in 1 .. (Len(clone_trace) - u + 1) :
                      \A m \in 0 .. (n - 1) : clone_trace[u + m].op = "git" })

C38_WorkingDirectory ==
    CloneDone =>
        /\ clone_result.kind \in {"raise", "return"}
        /\ clone_result.kind = "raise" => cwd = work_dir
        /\ clone_result.kind = "return" =>
               /\ Returned(SUCCESS)
               /\ cwd = work_dir \o "/" \o ghe.repo_name

\* The update in place failed, and so did the update after the clone.
C38_Witness ==
    /\ CloneDone
    /\ clone_result.kind = "raise"
    /\ Cardinality(UpdatePositions) = 2
    /\ Cardinality(Positions("cwd")) = 4
    /\ cwd = work_dir

\* The removals of the target: os.remove and shutil.rmtree.
Removals == Positions("remove") \cup Positions("rmtree")

\* C39: in one call the clone command is issued at most once, and only
\* when nothing is at the target path (what the probe found there has been
\* removed before, and is removed at most once); update is attempted at
\* most twice, once in place and once after the clone.
C39_OneCloneTwoUpdates ==
    /\ Cardinality(ClonePositions) <= 1
    /\ Cardinality(Removals) <= 1
    /\ clone_pc.at = "clone" => target = "absent"
    /\ \A c \in ClonePositions :
           /\ (FoundFile \/ FoundDir(TRUE) \/ FoundDir(FALSE)) =>
                  \E r \in Removals : r < c
           /\ \A r \in Removals : r < c
           /\ Cardinality({ u \in UpdatePositions : u < c }) <= 1
           /\ Cardinality({ u \in UpdatePositions : u > c }) <= 1
           /\ \A u \in UpdatePositions : u < c => FoundDir(TRUE)
    /\ Cardinality(UpdatePositions) <= 2
    /\ Cardinality(UpdatePositions) = 2 => ClonePositions # {}

\* Two updates around one clone, the second one a success.
C39_Witness ==
    /\ CloneDone
    /\ Cardinality(UpdatePositions) = 2
    /\ Cardinality(ClonePositions) = 1
    /\ Positions("rmtree") # {}
    /\ clone_result.kind = "return"
    /\ target = "repo"

(***************************************************************************)
(* MergeAction                                                             *)
(***************************************************************************)
\* The five commands of a merge.
ExpectedMerge ==
    LET branch == ghe.pull_user_login \o "-" \o ghe.change_branch IN
    << <<"git", "branch", "-D", branch>>,
       <<"git", "checkout", "-b", branch, ghe.repo_branch>>,
       <<"git", "pull", ghe.change_url, ghe.change_branch>>,
       <<"git", "checkout", ghe.repo_branch>>,
       <<"git", "merge", branch>> >>
MergeDone == clone_pc.at = "done"
Failed(e) == e.child.returncode # 0

C31_WitnessMarker ==
    /\ MergeDone
    /\ Len(clone_trace) = 3
    /\ Failed(clone_trace[3])
    /\ clone_trace[3].child.stderr = <<SSH_ERROR>>
    /\ clone_result.kind = "raise"

(***************************************************************************)
(* _git: the cost of a call                                                *)
(***************************************************************************)
RECURSIVE Sum(_)
Sum(seq) == IF seq = <<>> THEN 0 ELSE Head(seq).secs + Sum(Tail(seq))
\* the seconds slept so far
Slept == Sum(SleepsOf(git_trace))

\* The bounds of a call with at least one try allowed.
C33_Bounded ==
    ssh_retries >= 1 =>
        /\ NumCalls <= ssh_retries
        /\ NumSleeps = (IF NumCalls = 0 THEN 0 ELSE NumCalls - 1)
        /\ \A k \in 1 .. NumSleeps : SleepsOf(git_trace)[k].secs = Pow2(k - 1)
        /\ Slept <= Pow2(ssh_retries - 1) - 1
        /\ git_pc = "done" => NumCalls >= 1

\* C33: for every ssh_retries R >= 1 and every sequence of subprocess
\* outcomes _git comes to an end, after at most R runs of the command; the
\* sleeps are one fewer than the runs, the k-th sleep lasts 2^(k-1) seconds,
\* and the time slept in one call is at most 2^(R-1) - 1 seconds.
C33_TerminatesWithinBounds ==
    /\ []C33_Bounded
    /\ <>(git_pc = "done")

\* R runs and R-1 sleeps, 2^(R-1) - 1 seconds in all.
C33_Witness ==
    /\ git_pc = "done"
    /\ ssh_retries = MaxRetries
    /\ NumCalls = MaxRetries
    /\ NumSleeps = MaxRetries - 1
    /\ Slept = Pow2(MaxRetries - 1) - 1

\* C40: whatever ssh_retries is, _git returns an output or raises
\* GitException only after it ran the command at least once; with
\* ssh_retries below 1 no subprocess is run and the call ends with neither.
C40_NoResultWithoutRun ==
    /\ (git_result.kind = "return" \/
        (git_result.kind = "raise" /\ git_result.exc = "GitException")) =>
           /\ NumCalls >= 1
           /\ ssh_retries >= 1
    /\ (git_pc = "done" /\ ssh_retries < 1) =>
           /\ git_trace = <<>>
           /\ git_result = [kind |-> "raise", exc |-> "UnboundLocalError"]

\* No try allowed and no exception asked for.
C40_Witness ==
    /\ git_pc = "done"
    /\ ssh_retries = 0
    /\ ~do_raise
    /\ git_trace = <<>>
    /\ git_result.kind = "raise"

(***************************************************************************)
(* _set_status: what goes out for a text or URL                            *)
(***************************************************************************)
\* what the claim has create_status handed for a text or URL
Distinctly(x) == IF x = "<None>" THEN "<NotSet>" ELSE x

\* C32: a report whose URL or text is not provided goes out with the
\* API's not-set marker, and one whose URL or text is the empty string goes
\* out with the empty string, not with the marker.
C32_EmptyStringTransmitted ==
    (last_call.report # <<>> /\ ~last_call.raised) =>
        /\ statuses[Len(statuses)].url = Distinctly(last_call.report[1].url)
        /\ statuses[Len(statuses)].text = Distinctly(last_call.report[1].text)

(***************************************************************************)
(* activate: the ways it leaves without an instance                        *)
(***************************************************************************)
\* no --github-pull, or an empty one
NoSelector == act_args[1].github_pull = <<>> \/ act_args[1].github_pull = << <<>> >>
\* a selector that is no JSON document and has nothing, or something other
\* than digits, after its "#"
BadNumber ==
    /\ ~NoSelector
    /\ json_loads(act_args[1].github_pull[1]).type # "object"
    /\ LET number == partition(act_args[1].github_pull[1], "#")[3]
       IN  number = <<>> \/ \E i \in 1 .. Len(number) : number[i] \notin Digits
Declared ==
    CallsTo("ctxt.variables.declare_sensitive") \o CallsTo("ctxt.variables.update")

\* C34: with no selector activate reads no keyring, prompts for nothing,
\* writes no keyring, makes no API handle and declares or updates no
\* variable; with a selector whose number is empty or not numeric, or whose
\* lookup fails, no variable is declared or updated, no URL is resolved and
\* no instance is made.
C34_DeactivationFrame ==
    /\ (Activated /\ NoSelector) =>
           /\ act_trace = <<>>
           /\ act_result = [kind |-> "inactive"]
    /\ (Activated /\ (BadNumber \/ LookupFailed)) =>
           /\ Declared = <<>>
           /\ CallsTo("_select_url") = <<>>
           /\ act_result.kind # "instance"
           /\ final_status = [status |-> "success", text |-> "Tests passed!",
                              url |-> None]

\* The pull request is not there; the password had been written to the
\* keyring before.
C34_Witness ==
    /\ Activated
    /\ LookupFailed
    /\ Len(CallsTo("repo.get_pull")) = 1
    /\ Len(CallsTo("keyring.set_password")) = 1
    /\ act_result = [kind |-> "inactive"]
    /\ Declared = <<>>

(***************************************************************************)
(* activate: the final status                                              *)
(***************************************************************************)
NoDiscrete ==
    /\ act_args[1].github_override_status = "<None>"
    /\ act_args[1].github_override_text = "<None>"
    /\ act_args[1].github_override_url = "<None>"
CombinedIs(text) == act_args[1].github_override = text
\* a field with the discrete override over the default
DiscreteOr(discrete, default) ==
    IF discrete = "<None>" THEN {default}
    ELSE IF discrete = "" THEN {default, discrete}
    ELSE {discrete}

\* C35: with no overrides the final status is success, 'Tests passed!' and
\* the configured status URL; a combined override document gives the keys
\* among status, text and url that it has, its other keys count for
\* nothing and the keys it lacks keep the default; a combined override that
\* is no JSON changes nothing, the discrete overrides applying as without
\* it.
C35_FinalStatusDescriptor ==
    Made =>
        /\ (CombinedIs("<None>") /\ NoDiscrete) =>
               final_status = [status |-> "success", text |-> "Tests passed!",
                               url |-> act_args[1].github_status_url]
        /\ (CombinedIs("{\"text\": \"t\", \"other\": 1}") /\ NoDiscrete) =>
               final_status = [status |-> "success", text |-> "t",
                               url |-> act_args[1].github_status_url]
        /\ (CombinedIs("{\"status\": \"override\", \"text\": \"t\", \"url\": \"u\"}")
            /\ NoDiscrete) =>
               final_status = [status |-> "override", text |-> "t", url |-> "u"]
        /\ CombinedIs("not json") =>
               /\ final_status.status
                      \in DiscreteOr(act_args[1].github_override_status, "success")
               /\ final_status.text
                      \in DiscreteOr(act_args[1].github_override_text, "Tests passed!")
               /\ final_status.url
                      \in DiscreteOr(act_args[1].github_override_url,
                                     act_args[1].github_status_url)
        /\ DOMAIN final_status = {"status", "text", "url"}

\* A document with a text and a key that is none of the three.
C35_Witness ==
    /\ Made
    /\ CombinedIs("{\"text\": \"t\", \"other\": 1}")
    /\ NoDiscrete
    /\ act_args[1].github_status_url = "http://ci"
    /\ final_status = [status |-> "success", text |-> "t", url |-> "http://ci"]

(***************************************************************************)
(* activate: the two ways to a pull request                                *)
(***************************************************************************)
\* the selectors json.loads takes: the two documents and the number 5
ParsesAsJson ==
    act_args[1].github_pull \in
        { << <<"{\"number\": 7, \"base\": {}, \"head\": {}}">> >>,
          << <<"{}">> >>,
          << <<"5">> >> }
Lookups == CallsTo("gh.get_repo") \o CallsTo("repo.get_pull")
Hydrations == CallsTo("gh.create_from_raw_data")

\* C36: a selector that parses as JSON has the pull request made from the
\* raw data, with no lookup of a repository or of a pull request; a
\* selector that does not parse as JSON goes the way of the lookup and the
\* raw data call is never made.
C36_SelectorPathsExclusive ==
    (Activated /\ ~NoSelector) =>
        /\ ParsesAsJson => Len(Hydrations) = 1 /\ Lookups = <<>>
        /\ ~ParsesAsJson =>
               /\ Hydrations = <<>>
               /\ ~BadNumber => Len(CallsTo("gh.get_repo")) = 1
        /\ Made => Len(Hydrations) + Len(CallsTo("repo.get_pull")) = 1

\* The selector "5" is a JSON text: raw data, and no lookup.
C36_Witness ==
    /\ Activated
    /\ act_args[1].github_pull = << <<"5">> >>
    /\ Len(Hydrations) = 1
    /\ Hydrations[1].args[1].type = "number"
    /\ Lookups = <<>>

(***************************************************************************)
(* finalize: what a run leaves on the pull request                         *)
(***************************************************************************)
FinalizeReturned == last_call.op = "finalize" /\ ~last_call.raised

\* C37: after finalize returned, whatever pre_step and post_step calls came
\* before, the status reported last is pending only if the result was None
\* and the final status itself is pending.
C37_NoPendingLeft ==
    (/\ FinalizeReturned
     /\ statuses # <<>>
     /\ statuses[Len(statuses)].status = "pending") =>
        /\ last_call.result = [kind |-> "none", str |-> "None"]
        /\ final_status.status = "pending"

\* A step was announced and the run failed with a message: the
\* announcement is replaced by a failure.
C37_Witness ==
    /\ FinalizeReturned
    /\ last_call.result.kind = "other"
    /\ last_call.prev # <<>>
    /\ last_call.prev[1].status = "pending"
    /\ Len(statuses) = 2
    /\ statuses[1].status = "pending"
    /\ statuses[2].status = "failure"

====
